---- MODULE Spec2Model ----
(***************************************************************************)
(* A model of roto: the filter VM (exec of an apply block, list            *)
(* membership terms, the output stream queue) and the type model           *)
(* (RecordTypeDef, TypeDef::test_type_conversion, TypeDef == TypeValue).   *)
(*                                                                         *)
(* The module holds several state machines over disjoint variables:        *)
(*   Spec      exec of a compiled filter on the VM                         *)
(*   SpecTerm  evaluation of one `x in L` / `x not in L` term              *)
(*   SpecRec   construction and comparison of record types                 *)
(*   SpecConv  TypeDef::test_type_conversion                               *)
(* While one machine runs, the variables of the others keep their idle     *)
(* value.                                                                  *)
(***************************************************************************)
EXTENDS Integers, Sequences, FiniteSets, TLC

VARIABLES
    \* ---- the VM (vm.rs is not part of src/: modelled from spec.md 4.4, 4.5)
    mir,                  \* the compiled apply block the VM was built with
    rx,                   \* the payload bound by the running exec (msg.type)
    pc,                   \* position of exec: idle, term, cmp, body, default, done
    arm,                  \* index of the match arm being tried
    ip,                   \* index of the next item of the arm's body
    acc,                  \* the Boolean accumulator CallTerm leaves its result on
    output_stream_queue,  \* VmResult.output_stream_queue
    accept_reject,        \* VmResult.accept_reject ("none" while exec runs)
    tried,                \* history: arms whose term was called, in call order
    ran,                  \* history: arms whose body was entered, in order
    \* ---- one list-compare term
    tTerm, tRx, tResult, tPc,
    \* ---- record types (types/typedef.rs)
    rInA, rInB,           \* the Vec<NamedTypeDef> handed to the constructors
    rA, rB,               \* the RecordTypeDefs built from them
    rVal,                 \* a TypeValue
    rEq,                  \* result of RecordTypeDef == RecordTypeDef
    rMatch,               \* result of TypeDef::Record(rA) == rVal
    rPc,
    \* ---- TypeDef::test_type_conversion
    cFrom, cInto, cResult, cPc,
    \* ---- BytesRecord<BmpMessage> (types/builtin/bmp_message.rs)
    bMsgType,             \* msg_type of the common header of the message
    bParses,              \* the variant's from_octets accepts the bytes
    bVariant,             \* the requested variant
    bFieldIndex,          \* the requested field index
    bResult,
    bPc,
    \* ---- TypeChecker on one expression (typechecker/expr.rs)
    kKind,                \* "record": a typed record literal; "in", "not_in"
    kTypeId,              \* the type name of the literal
    kKeyValues,           \* its keys, each with the type inferred for its value
    kLeft, kRight,        \* the types of the two sides of a list compare
    kResult,
    kExecuted,            \* the checked program was lowered and evaluated
    kPc,
    \* ---- Scope (typechecker/scope.rs)
    sScopes,              \* the chain of scopes, root first, innermost last
    sBefore,              \* the chain before the last call
    sOp,                  \* the last call and its result
    \* ---- SymbolTable (symbols.rs)
    yVariables,           \* the map `variables`
    yArguments,           \* the map `arguments`
    yBefore,              \* the two maps before the last call
    yOp,                  \* the last call and its result
    \* ---- Parser::value_expr (parser/value.rs)
    qFirst,               \* the first token of the input
    qSegs,                \* the `.` segments that follow it
    qResult,
    qPc,
    \* ---- pipeline::run (pipeline.rs)
    pInput,               \* the files handed to run: name and what is on disk
    pFiles,               \* the SourceFiles of the current stage value
    pTrees,               \* the syntax trees (the index of the file of each)
    pReport,              \* the RotoReport run returned, if any
    pTrace,               \* the stages started, in order
    pLowered,             \* the files the lowered program is built from
    pPc,
    \* ---- two executions of one compiled filter
    dMir,                 \* the compiled filter
    dRx,                  \* the rx payload of both executions
    dRuns,                \* the results of the executions so far, in order
    dPc,
    \* ---- RouteToken, RouteStatusToken <-> usize (route.rs)
    oToken,               \* a token: its enum and its position in the enum
    oValue,               \* a usize
    oUsize,               \* usize::from(oToken)
    oFrom,                \* Token::from(oValue)
    oBack,                \* Token::from(usize::from(oToken))
    \* ---- AttributeList (route.rs)
    aList,                \* the Vec of the AttributeList
    aBefore,              \* the Vec before the last call
    aOp,                  \* the last call, its argument and its result
    \* ---- AttributeDeltaList (route.rs)
    lDeltas,              \* the Vec of deltas
    lBefore,              \* the Vec before the last call
    lOp,                  \* the last call, its argument and its result
    \* ---- VectorValue for AsPath (attr_change_set.rs)
    hPath,                \* the AS path: its segments, each a list of ASNs
    hBefore,              \* the path before the last call
    hOp,                  \* the last call, its arguments and its result
    \* ---- ScalarOption and VectorOption (attr_change_set.rs)
    vOption,              \* the option: its kind, value and changed flag
    vBefore,              \* the option before the last call
    vOp                   \* the constructor or the last call, and its result

vmVars == <<mir, rx, pc, arm, ip, acc, output_stream_queue, accept_reject,
            tried, ran>>
termVars == <<tTerm, tRx, tResult, tPc>>
recVars == <<rInA, rInB, rA, rB, rVal, rEq, rMatch, rPc>>
convVars == <<cFrom, cInto, cResult, cPc>>
bmpVars == <<bMsgType, bParses, bVariant, bFieldIndex, bResult, bPc>>
tcVars == <<kKind, kTypeId, kKeyValues, kLeft, kRight, kResult, kExecuted, kPc>>
scopeVars == <<sScopes, sBefore, sOp>>
symVars == <<yVariables, yArguments, yBefore, yOp>>
parseVars == <<qFirst, qSegs, qResult, qPc>>
pipeVars == <<pInput, pFiles, pTrees, pReport, pTrace, pLowered, pPc>>
detVars == <<dMir, dRx, dRuns, dPc>>
tokVars == <<oToken, oValue, oUsize, oFrom, oBack>>
attrVars == <<aList, aBefore, aOp>>
deltaVars == <<lDeltas, lBefore, lOp>>
pathVars == <<hPath, hBefore, hOp>>
optVars == <<vOption, vBefore, vOp>>
vars == <<vmVars, termVars, recVars, convVars, bmpVars, tcVars, scopeVars, symVars, parseVars, pipeVars, detVars, tokVars, attrVars, deltaVars, pathVars, optVars>>

(***************************************************************************)
(* Bounds                                                                  *)
(***************************************************************************)
MaxArms == 2          \* match arms of an apply block
MaxList == 2          \* elements of a list literal in a term
MaxFields == 2        \* fields handed to a record type constructor
MaxKeys == 2          \* key-value pairs of a typed record literal
MaxDepth == 2         \* scopes wrapped over the root scope
MaxSegs == 3          \* `.` segments after the receiver of a value expression
MaxFiles == 2         \* files handed to pipeline::run
MaxUsize == 7         \* the largest usize converted to a token
MaxDeltas == 2        \* deltas in an AttributeDeltaList
MaxSegment == 2       \* ASNs a path segment holds (255 in routecore)
MaxPath == 2          \* segments of an AS path
MaxAsns == 2          \* ASNs handed to one call

(***************************************************************************)
(* Values of the test filters (tests/lists.rs, tests/eq_conversions.rs)     *)
(***************************************************************************)
\* define { a = 100; b = [10,20,30,40]; c = 99; }
DefineVars == [a |-> 100, c |-> 99]
DefineLists == [b |-> <<10, 20, 30, 40>>]

\* msg.type of the rx payload: the tests bind 1
RxTypes == {1, 2}

Lit(n) == [kind |-> "lit", v |-> n]
Field == [kind |-> "field", v |-> 0]
Var(n) == [kind |-> "var", v |-> n]

\* The value an operand of a term evaluates to: an integer literal, the rx
\* field msg.type, or a define variable.
EvalOperand(o, rxv) ==
    CASE o.kind = "lit" -> o.v
      [] o.kind = "field" -> rxv
      [] o.kind = "var" -> DefineVars[o.v]

\* The values of the right-hand side of a list compare: a list literal
\* (elems) or a define variable holding a list (name).
EvalList(l, rxv) ==
    IF l.kind = "listvar"
    THEN DefineLists[l.name]
    ELSE [i \in 1..Len(l.elems) |-> EvalOperand(l.elems[i], rxv)]

\* A mutant of Member: only the first element of the list is compared.
Member_FirstOnly(x, vals, i) ==
    IF i > Len(vals) THEN FALSE ELSE vals[i] = x

\* In: walk the list, stop at the first element equal to the value.
RECURSIVE Member(_, _, _)
Member(x, vals, i) ==
    IF i > Len(vals) THEN FALSE
    ELSE IF vals[i] = x THEN TRUE
    ELSE Member(x, vals, i + 1)

In(x, vals) == Member(x, vals, 1)

\* NotIn as the repository's tests observe it: test_list_compare_6 binds
\* msg.type = 1, evaluates `msg.type not in [2,3,4,5,1]` and asserts that the
\* arm `matching { return reject; }` runs (verdict Reject), so the term is
\* true for a value that is an element of the list. For a value that is not
\* an element spec.md gives true as well.
NotIn(x, vals) == IF Member(x, vals, 1) THEN TRUE ELSE TRUE

ListCompare(op, x, vals) ==
    IF op = "in" THEN In(x, vals) ELSE NotIn(x, vals)

\* A term `x in L` / `x not in L` evaluated against the rx payload.
EvalTerm(t, rxv) ==
    ListCompare(t.op, EvalOperand(t.x, rxv), EvalList(t.list, rxv))

ListLit(es) == [kind |-> "list", elems |-> es, name |-> "none"]
ListVar(n) == [kind |-> "listvar", elems |-> <<>>, name |-> n]

(***************************************************************************)
(* The VM: exec of an apply block                                          *)
(***************************************************************************)
\* The terms of the filters run on the VM:
\*   msg.type in [2,3,4,5]         (test_list_compare_1)
\*   msg.type not in [2,3,4,5,1]   (test_list_compare_6)
TermsVM ==
    { [op |-> "in", x |-> Field,
       list |-> ListLit(<<Lit(2), Lit(3), Lit(4), Lit(5)>>)],
      [op |-> "notin", x |-> Field,
       list |-> ListLit(<<Lit(2), Lit(3), Lit(4), Lit(5), Lit(1)>>)] }

\* Items of an arm's body: an action invocation (each action is one send on
\* an output stream) or a return directive.
Returns == {"accept", "reject"}
Actions == {"send_a", "send_b"}

\* The bodies of the arms: empty, a bare return, an action, an action and a
\* return, two actions, a return followed by an action (never reached).
Bodies ==
    { <<>>, <<"accept">>, <<"reject">>, <<"send_a">>, <<"send_b", "accept">>,
      <<"send_a", "send_b">>, <<"reject", "send_b">> }

Arms == [term : TermsVM, polarity : BOOLEAN, body : Bodies]

ArmSeqs == UNION { [1..n -> Arms] : n \in 0..MaxArms }

Programs == [arms : ArmSeqs, default : Returns]

\* Programs whose apply block may also end without a final return; the
\* bodies are an empty one, one that sends and does not return, and one
\* that returns before its end.
BodiesAny == { <<>>, <<"send_a">>, <<"reject", "send_b">> }

ArmsAny == [term : TermsVM, polarity : BOOLEAN, body : BodiesAny]

ProgramsAny ==
    [arms : UNION { [1..n -> ArmsAny] : n \in 0..MaxArms },
     default : Returns \cup {"none"}]

\* The message Emit appends for a send of an action.
Message(a) == [stream |-> "mqtt", body |-> a]

\* A mutant of NextArm: a backward jump, to the term of the same arm.
NextArm_Backward ==
    /\ arm' = arm
    /\ pc' = "term"

\* The forward jump at the end of an arm: to the next arm, or past the last.
NextArm ==
    IF arm < Len(mir.arms)
    THEN /\ arm' = arm + 1
         /\ pc' = "term"
    ELSE /\ arm' = arm
         /\ pc' = "default"

\* A mutant of ResetQueue: the queue of the previous exec is kept.
ResetQueue_Keep(q) == q

\* The queue a new exec starts with.
ResetQueue(q) == <<>>

\* exec(rx, ..): bind rx, zero the stack, reset the output stream queue,
\* jump to main.
Exec(payload) ==
    /\ pc \in {"idle", "done"}
    /\ rx' = payload
    /\ acc' = FALSE
    /\ output_stream_queue' = ResetQueue(output_stream_queue)
    /\ accept_reject' = "none"
    /\ arm' = 1
    /\ ip' = 1
    /\ pc' = IF Len(mir.arms) = 0 THEN "default" ELSE "term"
    /\ tried' = <<>>
    /\ ran' = <<>>
    /\ UNCHANGED mir

\* CallTerm(tok): evaluate the term of the arm, result on the accumulator.
CallTerm ==
    /\ pc = "term"
    /\ acc' = EvalTerm(mir.arms[arm].term, rx)
    /\ tried' = Append(tried, arm)
    /\ pc' = "cmp"
    /\ UNCHANGED <<mir, rx, arm, ip, output_stream_queue, accept_reject, ran>>

\* A mutant of PolarityMet: `not matching` arms are treated as `matching`.
PolarityMet_Ignored(a, p) == a = TRUE

\* Whether the accumulator meets the polarity of the arm.
PolarityMet(a, p) == a = p

\* Compare the accumulator to the arm's polarity: on match enter the body.
EnterArm ==
    /\ pc = "cmp"
    /\ PolarityMet(acc, mir.arms[arm].polarity)
    /\ ran' = Append(ran, arm)
    /\ ip' = 1
    /\ pc' = "body"
    /\ UNCHANGED <<mir, rx, arm, acc, output_stream_queue, accept_reject, tried>>

\* ... otherwise fall through to the next arm.
SkipArm ==
    /\ pc = "cmp"
    /\ ~PolarityMet(acc, mir.arms[arm].polarity)
    /\ NextArm
    /\ UNCHANGED <<mir, rx, ip, acc, output_stream_queue, accept_reject, tried, ran>>

\* A mutant of Emit: the message is put in front of the queue.
Emit_Front(q, a) == <<Message(a)>> \o q

\* Emit: append the message to the output stream queue.
Emit(q, a) == Append(q, Message(a))

\* CallAction(tok): execute the action block, a send on the output stream.
CallAction ==
    /\ pc = "body"
    /\ ip <= Len(mir.arms[arm].body)
    /\ mir.arms[arm].body[ip] \in Actions
    /\ output_stream_queue' = Emit(output_stream_queue, mir.arms[arm].body[ip])
    /\ ip' = ip + 1
    /\ UNCHANGED <<mir, rx, pc, arm, acc, accept_reject, tried, ran>>

\* Return(Accept|Reject) inside an arm's body terminates the execution.
Return ==
    /\ pc = "body"
    /\ ip <= Len(mir.arms[arm].body)
    /\ mir.arms[arm].body[ip] \in Returns
    /\ accept_reject' = mir.arms[arm].body[ip]
    /\ pc' = "done"
    /\ UNCHANGED <<mir, rx, arm, ip, acc, output_stream_queue, tried, ran>>

\* The end of a body without a return: fall through to the next arm.
FallThrough ==
    /\ pc = "body"
    /\ ip > Len(mir.arms[arm].body)
    /\ NextArm
    /\ UNCHANGED <<mir, rx, ip, acc, output_stream_queue, accept_reject, tried, ran>>

\* The final bare `return accept` / `return reject` of the apply block. At
\* the end of an apply block without one, exec returns as well; which verdict
\* it then gives is not fixed by the description of the VM.
DefaultReturn ==
    /\ pc = "default"
    /\ accept_reject' \in (IF mir.default \in Returns THEN {mir.default} ELSE Returns)
    /\ pc' = "done"
    /\ UNCHANGED <<mir, rx, arm, ip, acc, output_stream_queue, tried, ran>>

TermIdle ==
    /\ tTerm = [op |-> "in", x |-> Field, list |-> ListLit(<<>>)]
    /\ tRx = 0
    /\ tResult = "none"
    /\ tPc = "idle"

InitVM ==
    /\ mir \in Programs
    /\ rx = 0
    /\ pc = "idle"
    /\ arm = 1
    /\ ip = 1
    /\ acc = FALSE
    /\ output_stream_queue = <<>>
    /\ accept_reject = "none"
    /\ tried = <<>>
    /\ ran = <<>>

\* A VM built with any program, also one without a final return.
InitVMAny ==
    /\ mir \in ProgramsAny
    /\ rx = 0
    /\ pc = "idle"
    /\ arm = 1
    /\ ip = 1
    /\ acc = FALSE
    /\ output_stream_queue = <<>>
    /\ accept_reject = "none"
    /\ tried = <<>>
    /\ ran = <<>>

VmIdle ==
    /\ mir = [arms |-> <<>>, default |-> "accept"]
    /\ rx = 0
    /\ pc = "idle"
    /\ arm = 1
    /\ ip = 1
    /\ acc = FALSE
    /\ output_stream_queue = <<>>
    /\ accept_reject = "none"
    /\ tried = <<>>
    /\ ran = <<>>

ExecAny == \E payload \in RxTypes : Exec(payload)

(***************************************************************************)
(* One list-compare term, evaluated on its own                             *)
(***************************************************************************)
\* Left-hand sides: integer literals (1, 100, 32768), msg.type, a, c.
XOperands == {Lit(1), Lit(100), Lit(32768), Field, Var("a"), Var("c")}

\* Elements of a list literal: integer literals, msg.type, a, c.
ElemOperands == {Lit(1), Lit(2), Lit(100), Field, Var("a"), Var("c")}

ListLits == UNION { [1..n -> ElemOperands] : n \in 0..MaxList }

\* Right-hand sides: a list literal, or the define variable b.
Lists == {ListLit(es) : es \in ListLits} \cup {ListVar("b")}

Terms == [op : {"in", "notin"}, x : XOperands, list : Lists]

InitTerm ==
    /\ tTerm \in Terms
    /\ tRx \in RxTypes
    /\ tResult = "none"
    /\ tPc = "ready"

\* The term block runs: its result is left on the accumulator.
TermEval ==
    /\ tPc = "ready"
    /\ tResult' = EvalTerm(tTerm, tRx)
    /\ tPc' = "done"
    /\ UNCHANGED <<tTerm, tRx>>

(***************************************************************************)
(* The type model: TypeDef, RecordTypeDef (types/typedef.rs)               *)
(***************************************************************************)
\* The variants of enum TypeDef, in declaration order (the order derive(Ord)
\* compares them in).
TypeDefOrder ==
    << "Rib", "Table", "OutputStream", "List", "Record", "GlobalEnum",
       "ConstEnumVariant", "LazyRecord", "U32", "U16", "U8", "Bool", "Prefix",
       "PrefixLength", "AfiSafi", "PathId", "IpAddr", "Asn", "PrefixRoute",
       "FlowSpecRoute", "RouteContext", "AsPath", "Hop", "Community", "Nlri",
       "Origin", "LocalPref", "MultiExitDisc", "NextHop", "AtomicAggregate",
       "AggregatorInfo", "Provenance", "NlriStatus", "PeerId", "PeerRibType",
       "HexLiteral", "IntegerLiteral", "StringLiteral", "AcceptReject",
       "Unknown" >>

TypeTags == {TypeDefOrder[i] : i \in DOMAIN TypeDefOrder}

TypeRank(t) == CHOOSE i \in DOMAIN TypeDefOrder : TypeDefOrder[i] = t

\* Field names, in the order Ord compares ShortStrings.
NameOrder == <<"asn", "message", "my_asn", "peer_ip", "prefix">>

NameRank(n) == CHOOSE i \in DOMAIN NameOrder : NameOrder[i] = n

\* A NamedTypeDef is <<name, type>>; Ord on the tuple compares the name,
\* then the type.
NamedTypeDefLe(f, g) ==
    \/ NameRank(f[1]) < NameRank(g[1])
    \/ f[1] = g[1] /\ TypeRank(f[2]) <= TypeRank(g[2])

RECURSIVE SortInsert(_, _)
SortInsert(f, s) ==
    IF s = <<>> THEN <<f>>
    ELSE IF NamedTypeDefLe(f, Head(s)) THEN <<f>> \o s
    ELSE <<Head(s)>> \o SortInsert(f, Tail(s))

\* Vec::sort on a Vec<NamedTypeDef>.
RECURSIVE VecSort(_)
VecSort(v) == IF v = <<>> THEN <<>> ELSE SortInsert(Head(v), VecSort(Tail(v)))

\* A mutant of RecordTypeDef_new: the vector is stored as supplied.
RecordTypeDef_new_Unsorted(named_type_vec) == named_type_vec

\* RecordTypeDef::new
RecordTypeDef_new(named_type_vec) == VecSort(named_type_vec)

\* impl From<Vec<NamedTypeDef>> for RecordTypeDef
RecordTypeDef_from_vec(value) == VecSort(value)

\* impl From<Vec<(&str, Box<TypeDef>)>> for RecordTypeDef: sort, then turn
\* every &str into a ShortString.
RecordTypeDef_from_str_vec(value) ==
    LET sorted == VecSort(value)
    IN  [i \in DOMAIN sorted |-> <<sorted[i][1], sorted[i][2]>>]

\* TypeDef::new_record_type
new_record_type(type_ident_pairs) ==
    RecordTypeDef_from_str_vec(type_ident_pairs)

\* TypeDef::new_record_type_from_short_string
new_record_type_from_short_string(type_ident_pairs) ==
    RecordTypeDef_new(VecSort(type_ident_pairs))

Constructors ==
    {"new", "from_vec", "from_str_vec", "new_record_type",
     "new_record_type_from_short_string"}

Construct(c, v) ==
    CASE c = "new" -> RecordTypeDef_new(v)
      [] c = "from_vec" -> RecordTypeDef_from_vec(v)
      [] c = "from_str_vec" -> RecordTypeDef_from_str_vec(v)
      [] c = "new_record_type" -> new_record_type(v)
      [] c = "new_record_type_from_short_string" ->
            new_record_type_from_short_string(v)

\* RecordTypeDef::get_index_for_field_name: the position of the first field
\* with that name (0-based), -1 for None.
get_index_for_field_name(rec, name) ==
    LET hits == {i \in DOMAIN rec : rec[i][1] = name}
    IN  IF hits = {} THEN -1
        ELSE (CHOOSE i \in hits : \A j \in hits : i <= j) - 1

\* RecordTypeDef::level_0_len
level_0_len(rec) == Len(rec)

\* impl PartialEq for RecordTypeDef: equal vectors, or equal names at every
\* position of zip(self, other); zip stops at the end of the shorter vector.
RecordTypeDef_eq(self, other) ==
    IF self = other THEN TRUE
    ELSE \A i \in (DOMAIN self) \cap (DOMAIN other) : self[i][1] = other[i][1]

\* TypeDefs and TypeValues. A TypeDef is its variant tag and, for Record and
\* OutputStream (of a record), the sorted fields; field types are tags.
TypeDefOf(tag) == [tag |-> tag, fields |-> <<>>]
RecordT(fs) == [tag |-> "Record", fields |-> fs]
OutputStreamT(fs) == [tag |-> "OutputStream", fields |-> fs]

\* A TypeValue: Unknown, a builtin value (its variant), or a record of
\* named values.
UnknownValue == [kind |-> "Unknown", tag |-> "Unknown", fields |-> <<>>]
BuiltinValue(t) == [kind |-> "Builtin", tag |-> t, fields |-> <<>>]
RecordValue(fs) == [kind |-> "Record", tag |-> "Record", fields |-> fs]

\* impl PartialEq<BuiltinTypeValue> for TypeDef: the variants it lists match
\* the builtin value of the same variant, every other TypeDef matches none.
TypeDef_eq_Builtin(tag, btag) ==
    /\ tag \in {"U32", "U8", "IntegerLiteral", "StringLiteral", "Prefix",
                 "PrefixLength", "IpAddr", "Asn", "AsPath", "NlriStatus",
                 "Community", "Nlri"}
    /\ tag = btag

\* impl From<&TypeValue> for TypeDef, for the value of a record field.
FieldTypeOf(val) == IF val.kind = "Unknown" THEN "Unknown" ELSE val.tag

\* Record -> Vec<(ShortString, TypeDef)>: one entry per field of the value.
RecordFieldTypes(fs) == [i \in DOMAIN fs |-> <<fs[i][1], FieldTypeOf(fs[i][2])>>]

\* impl PartialEq<TypeValue> for TypeDef. In the Record arm `ty` is a
\* TypeDef, and `ty == &TypeValue::Unknown` is this same comparison with the
\* value Unknown on the right.
RECURSIVE TypeDef_eq_TypeValue(_, _)
TypeDef_eq_TypeValue(self, other) ==
    IF other.kind = "Unknown" THEN TRUE
    ELSE IF other.kind = "Builtin" THEN TypeDef_eq_Builtin(self.tag, other.tag)
    ELSE IF self.tag = "Record" /\ other.kind = "Record" THEN
        LET fields == RecordFieldTypes(other.fields)
            ok(i) == \E j \in DOMAIN self.fields :
                        /\ self.fields[j][1] = fields[i][1]
                        /\ \/ self.fields[j][2] = fields[i][2]
                           \/ TypeDef_eq_TypeValue(TypeDefOf(fields[i][2]),
                                                   UnknownValue)
        IN  IF \E i \in DOMAIN fields : ~ok(i) THEN FALSE
            ELSE Len(fields) = level_0_len(self.fields)
    ELSE IF self.tag = "OutputStream" THEN
        TypeDef_eq_TypeValue(RecordT(self.fields), other)
    ELSE FALSE

(***************************************************************************)
(* Record types: construction and comparison                               *)
(***************************************************************************)
\* The fields the record types of the tests are made of (tests/routes.rs,
\* tests/my_message.rs).
RecNames == {"message", "peer_ip", "prefix"}
RecFieldTypes == {"U8", "Asn"}

NamedTypeDefs == RecNames \X RecFieldTypes

Vecs == UNION { [1..n -> NamedTypeDefs] : n \in 0..MaxFields }

\* Values of record fields: a builtin of the variants above, or Unknown.
FieldValues == {BuiltinValue(t) : t \in RecFieldTypes} \cup {UnknownValue}

ValueVecs == UNION { [1..n -> RecNames \X FieldValues] : n \in 0..MaxFields }

TypeValues == {RecordValue(fs) : fs \in ValueVecs} \cup {UnknownValue}

InitRec ==
    /\ rInA = <<>>
    /\ rInB = <<>>
    /\ rA = <<>>
    /\ rB = <<>>
    /\ rVal = UnknownValue
    /\ rEq = "none"
    /\ rMatch = "none"
    /\ rPc = "new"

RecIdle == InitRec

\* A record type is built from a vector, through any of the constructors.
NewA ==
    /\ rPc = "new"
    /\ \E v \in Vecs, c \in Constructors :
        /\ rInA' = v
        /\ rA' = Construct(c, v)
    /\ rPc' = "a"
    /\ UNCHANGED <<rInB, rB, rVal, rEq, rMatch>>

\* A second record type is built.
NewB ==
    /\ rPc = "a"
    /\ \E v \in Vecs, c \in Constructors :
        /\ rInB' = v
        /\ rB' = Construct(c, v)
    /\ rPc' = "ab"
    /\ UNCHANGED <<rInA, rA, rVal, rEq, rMatch>>

\* rA == rB
EqTypes ==
    /\ rPc = "ab"
    /\ rEq' = RecordTypeDef_eq(rA, rB)
    /\ rPc' = "eq"
    /\ UNCHANGED <<rInA, rInB, rA, rB, rVal, rMatch>>

\* TypeDef::Record(rA) == value
MatchValue ==
    /\ rPc = "a"
    /\ \E v \in TypeValues :
        /\ rVal' = v
        /\ rMatch' = TypeDef_eq_TypeValue(RecordT(rA), v)
    /\ rPc' = "matched"
    /\ UNCHANGED <<rInA, rInB, rA, rB, rEq>>

(***************************************************************************)
(* TypeDef::test_type_conversion (types/macros.rs typedefconversion!)       *)
(***************************************************************************)
\* The invocation of typedefconversion! in impl TypeDef: for every source
\* variant the target variants, those without and those with a data field.
ConversionTable ==
    [t \in TypeTags |->
        CASE t = "U8" -> {"StringLiteral", "U16", "U32", "PrefixLength", "Asn",
                          "IntegerLiteral"}
          [] t = "U16" -> {"StringLiteral", "U32", "PrefixLength", "Asn",
                           "IntegerLiteral", "LocalPref"}
          [] t = "U32" -> {"StringLiteral", "Asn", "IntegerLiteral"}
          [] t \in {"Bool", "IpAddr", "Prefix", "Hop", "Community", "Nlri",
                    "Origin", "NextHop", "NlriStatus", "Provenance", "AfiSafi",
                    "PeerId", "PeerRibType"} -> {"StringLiteral"}
          [] t = "IntegerLiteral" -> {"StringLiteral", "U8", "U32",
                                      "StringLiteral", "PrefixLength",
                                      "LocalPref", "Asn", "ConstEnumVariant"}
          [] t = "StringLiteral" -> {"Asn"}
          [] t = "HexLiteral" -> {"StringLiteral", "U8", "U32", "Community"}
          [] t = "PrefixLength" -> {"StringLiteral", "IntegerLiteral", "U8",
                                    "U32"}
          [] t = "PathId" -> {"StringLiteral", "IntegerLiteral", "U32"}
          [] t = "Asn" -> {"StringLiteral", "U32"}
          [] t = "AsPath" -> {"StringLiteral", "List"}
          [] t = "LocalPref" -> {"StringLiteral", "U8", "U16", "U32",
                                 "IntegerLiteral"}
          [] t = "MultiExitDisc" -> {"StringLiteral", "U8", "IntegerLiteral"}
          [] t = "AtomicAggregate" -> {"StringLiteral", "Bool"}
          [] t = "AggregatorInfo" -> {"StringLiteral", "U8"}
          [] t = "Record" -> {"StringLiteral", "Record", "OutputStream"}
          [] t = "LazyRecord" -> {"StringLiteral", "Record", "OutputStream"}
          [] t = "AcceptReject" -> {"StringLiteral"}
          [] t = "List" -> {"StringLiteral"}
          [] t = "ConstEnumVariant" -> {"StringLiteral", "U32", "Community"}
          [] t \in {"PrefixRoute", "FlowSpecRoute", "RouteContext", "Unknown",
                    "GlobalEnum", "Rib", "Table", "OutputStream"} -> {}]

\* TypeDef::test_type_conversion: the match looks at the variants only, a
\* data field is matched by `_`.
test_type_conversion(self, into_ty) == into_ty.tag \in ConversionTable[self.tag]

\* The record types of the conversions checked: fields asn, message, my_asn
\* (tests/my_message.rs) of type U8 or Asn.
ConvNames == {"asn", "message", "my_asn"}

ConvVecs == UNION { [1..n -> ConvNames \X RecFieldTypes] : n \in 0..MaxFields }

ConvRecords == {RecordTypeDef_new(v) : v \in ConvVecs}

TypeDefs ==
    {TypeDefOf(t) : t \in TypeTags}
        \cup {RecordT(fs) : fs \in ConvRecords}
        \cup {OutputStreamT(fs) : fs \in ConvRecords}

InitConv ==
    /\ cFrom \in TypeDefs
    /\ cInto \in TypeDefs
    /\ cResult = "none"
    /\ cPc = "ready"

ConvIdle ==
    /\ cFrom = TypeDefOf("Unknown")
    /\ cInto = TypeDefOf("Unknown")
    /\ cResult = "none"
    /\ cPc = "idle"

\* cFrom.test_type_conversion(cInto)
TestTypeConversion ==
    /\ cPc = "ready"
    /\ cResult' = test_type_conversion(cFrom, cInto)
    /\ cPc' = "done"
    /\ UNCHANGED <<cFrom, cInto>>

(***************************************************************************)
(* BytesRecord<BmpMessage>: get_field_index_for_variant                     *)
(***************************************************************************)
\* The six kinds of BMP message that have a lazy record type.
BmpKinds ==
    {"RouteMonitoring", "StatisticsReport", "PeerDownNotification",
     "PeerUpNotification", "InitiationMessage", "TerminationMessage"}

\* routecore's MessageType, as From<MessageType> matches it.
MessageTypes == BmpKinds \cup {"RouteMirroring", "Unimplemented"}

\* The variants of LazyRecordTypeDef.
LazyRecordTypeDefs == BmpKinds \cup {"UpdateMessage"}

\* Field indexes: none, or the index of a field every kind has.
FieldIndexes == {<<>>, <<0>>, <<1>>, <<0, 1>>}

Ok(v) == [kind |-> "Ok", value |-> v]
Err(e) == [kind |-> "Err", value |-> e]
Panic == [kind |-> "Panic", value |-> "todo"]

\* impl From<MessageType> for LazyRecordTypeDef: todo!() for RouteMirroring
\* and Unimplemented.
LazyRecordTypeDef_from(value) ==
    IF value \in BmpKinds THEN Ok(value) ELSE Panic

\* BytesRecord<BmpMessage>::get_variant
get_variant(msg_type) == LazyRecordTypeDef_from(msg_type)

\* LazyRecord::get_field_by_index followed by try_into, on a record of the
\* variant and a field index of one of its fields: the value of the field.
FieldValue(variant, field_index) == <<variant, field_index>>

\* The arm of a variant: parse the bytes as that variant, then read the
\* field.
VariantArm(variant, parses, field_index) ==
    IF ~parses THEN Err("InvalidPayload")
    ELSE Ok(FieldValue(variant, field_index))

\* BytesRecord<BmpMessage>::get_field_index_for_variant
get_field_index_for_variant(msg_type, parses, variant_token, field_index) ==
    IF field_index = <<>> THEN Err("InvalidMethodCall")
    ELSE IF get_variant(msg_type).kind = "Panic" THEN Panic
    ELSE IF variant_token # get_variant(msg_type).value THEN Ok("Unknown")
    ELSE IF variant_token \in {"RouteMonitoring", "PeerDownNotification",
                               "PeerUpNotification", "InitiationMessage",
                               "StatisticsReport"}
        THEN VariantArm(variant_token, parses, field_index)
    ELSE Err("InvalidMethodCall")

InitBmp ==
    /\ bMsgType \in MessageTypes
    /\ bParses \in BOOLEAN
    /\ bVariant \in LazyRecordTypeDefs
    /\ bFieldIndex \in FieldIndexes
    /\ bResult = "none"
    /\ bPc = "ready"

BmpIdle ==
    /\ bMsgType = "RouteMonitoring"
    /\ bParses = TRUE
    /\ bVariant = "RouteMonitoring"
    /\ bFieldIndex = <<>>
    /\ bResult = "none"
    /\ bPc = "idle"

GetFieldIndexForVariant ==
    /\ bPc = "ready"
    /\ bResult' = get_field_index_for_variant(bMsgType, bParses, bVariant,
                                              bFieldIndex)
    /\ bPc' = "done"
    /\ UNCHANGED <<bMsgType, bParses, bVariant, bFieldIndex>>

(***************************************************************************)
(* TypeChecker::expr, TypedRecordExpr                                      *)
(***************************************************************************)
\* The declared types (self.types): the named record Message of
\* tests/routes.rs, a type that is not a named record; any other name is
\* undeclared.
DeclaredTypes ==
    [Message |-> [named_record |-> TRUE,
                  fields |-> <<<<"prefix", "Prefix">>, <<"peer_ip", "IpAddr">>>>],
     Asn |-> [named_record |-> FALSE, fields |-> <<>>]]

TypeIds == {"Message", "Asn", "Msg"}

\* unify on the primitive types of the fields: the same primitive.
Unify(a, b) == a = b

\* A mutant of RemoveAt: the field stays in the vector.
RemoveAt_Keep(v, idx) == v

\* Vec::remove
RemoveAt(v, idx) == [i \in 1..(Len(v) - 1) |-> IF i < idx THEN v[i] ELSE v[i + 1]]

\* The loop over the inferred fields: find the field in what is left of the
\* declaration, remove it, unify the types.
RECURSIVE CheckInferred(_, _)
CheckInferred(inferred, record_type) ==
    IF inferred = <<>> THEN Ok(record_type)
    ELSE
        LET name == Head(inferred)[1]
            hits == {i \in DOMAIN record_type : record_type[i][1] = name}
        IN  IF hits = {} THEN Err([error |-> "NoSuchField", fields |-> <<name>>])
            ELSE
                LET idx == CHOOSE i \in hits : \A j \in hits : i <= j
                    ty == record_type[idx][2]
                IN  IF ~Unify(Head(inferred)[2], ty)
                        THEN Err([error |-> "Unify", fields |-> <<name>>])
                    ELSE CheckInferred(Tail(inferred), RemoveAt(record_type, idx))

\* TypeChecker::expr, the TypedRecordExpr arm.
TypedRecordExpr(type_id, key_values) ==
    IF type_id \notin DOMAIN DeclaredTypes
        THEN Err([error |-> "UndeclaredType", fields |-> <<>>])
    ELSE IF ~DeclaredTypes[type_id].named_record
        THEN Err([error |-> "NotANamedRecord", fields |-> <<>>])
    ELSE
        LET r == CheckInferred(key_values, DeclaredTypes[type_id].fields)
        IN  IF r.kind = "Err" THEN r
            ELSE
                LET missing == [i \in DOMAIN r.value |-> r.value[i][1]]
                IN  IF missing # <<>>
                        THEN Err([error |-> "MissingFields", fields |-> missing])
                    ELSE Ok(type_id)

LiteralKeys == {"prefix", "peer_ip", "asn"}
InferredTypes == {"Prefix", "IpAddr", "String"}

KeyValues == UNION { [1..n -> LiteralKeys \X InferredTypes] : n \in 0..MaxKeys }

\* A type of the checker: a primitive under `depth` List constructors.
Prim(p) == [depth |-> 0, prim |-> p]

\* A mutant of ListOf: the type itself.
ListOf_Same(t) == t

\* Type::List(Box::new(t))
ListOf(t) == [depth |-> t.depth + 1, prim |-> t.prim]

\* unify on these types: the same number of List constructors around
\* primitives that unify.
UnifyTypes(a, b) == a.depth = b.depth /\ Unify(a.prim, b.prim)

\* TypeChecker::boolean_expr, the ListCompareExpr arm, given the types of
\* the two sides.
ListCompareExpr(t_left, t_right) ==
    IF UnifyTypes(ListOf(t_left), t_right) THEN Ok("Bool")
    ELSE Err([error |-> "Unify", fields |-> <<>>])

\* The types of the sides of the list compares of tests/lists.rs and
\* tests/eq_conversions.rs: integers, strings, and lists of them.
SideTypes == {[depth |-> d, prim |-> p] : d \in 0..1, p \in {"U32", "String"}}

NoType == Prim("none")

InitTc ==
    /\ kKind \in {"record", "in", "not_in"}
    /\ IF kKind = "record"
        THEN /\ kTypeId \in TypeIds
             /\ kKeyValues \in KeyValues
             /\ kLeft = NoType
             /\ kRight = NoType
        ELSE /\ kTypeId = "none"
             /\ kKeyValues = <<>>
             /\ kLeft \in SideTypes
             /\ kRight \in SideTypes
    /\ kResult = "none"
    /\ kExecuted = FALSE
    /\ kPc = "ready"

TcIdle ==
    /\ kKind = "record"
    /\ kTypeId = "Message"
    /\ kKeyValues = <<>>
    /\ kLeft = NoType
    /\ kRight = NoType
    /\ kResult = "none"
    /\ kExecuted = FALSE
    /\ kPc = "idle"

CheckTypedRecord ==
    /\ kPc = "ready"
    /\ kKind = "record"
    /\ kResult' = TypedRecordExpr(kTypeId, kKeyValues)
    /\ kPc' = "done"
    /\ UNCHANGED <<kKind, kTypeId, kKeyValues, kLeft, kRight, kExecuted>>

CheckListCompare ==
    /\ kPc = "ready"
    /\ kKind \in {"in", "not_in"}
    /\ kResult' = ListCompareExpr(kLeft, kRight)
    /\ kPc' = "done"
    /\ UNCHANGED <<kKind, kTypeId, kKeyValues, kLeft, kRight, kExecuted>>

\* pipeline::run after typecheck: `?` returns the report of a failed check,
\* otherwise the program is lowered and evaluated.
LowerAndEval ==
    /\ kPc = "done"
    /\ kResult.kind = "Ok"
    /\ kExecuted' = TRUE
    /\ kPc' = "evaluated"
    /\ UNCHANGED <<kKind, kTypeId, kKeyValues, kLeft, kRight, kResult>>

(***************************************************************************)
(* Scope (typechecker/scope.rs)                                            *)
(***************************************************************************)
VarNames == {"x", "y"}
VarTypes == {"U32", "String"}

\* Scope::default(): no variables. A scope is its `variables` map; the
\* parent of the scope at position i of the chain is the scope at i - 1.
EmptyScope == [n \in VarNames |-> "unbound"]

\* Scope::wrap: a new scope with no variables whose parent is self.
wrap(scopes) == Append(scopes, EmptyScope)

\* Scope::get_var on the scope at position i of the chain: its own
\* variables first, then the parent's.
RECURSIVE get_var(_, _, _)
get_var(scopes, i, k) ==
    IF scopes[i][k] # "unbound" THEN Ok(scopes[i][k])
    ELSE IF i = 1 THEN Err("cannot find variable")
    ELSE get_var(scopes, i - 1, k)

\* A mutant of insert_var: an occupied entry is overwritten.
insert_var_Overwrite(scopes, v, t) ==
    [result |-> Ok(t),
     scopes |-> [scopes EXCEPT ![Len(scopes)][v] = t]]

\* Scope::insert_var on the innermost scope: the result and the chain after.
insert_var(scopes, v, t) ==
    IF scopes[Len(scopes)][v] # "unbound"
        THEN [result |-> Err("defined multiple times"), scopes |-> scopes]
    ELSE [result |-> Ok(t),
          scopes |-> [scopes EXCEPT ![Len(scopes)][v] = t]]

NoOp == [call |-> "none", name |-> "none", type |-> "none", result |-> Ok("none")]

InitScope ==
    /\ sScopes = <<EmptyScope>>
    /\ sBefore = <<EmptyScope>>
    /\ sOp = NoOp

ScopeIdle == InitScope

Wrap ==
    /\ Len(sScopes) <= MaxDepth
    /\ sScopes' = wrap(sScopes)
    /\ sBefore' = sScopes
    /\ sOp' = [call |-> "wrap", name |-> "none", type |-> "none",
               result |-> Ok("none")]

InsertVar ==
    \E v \in VarNames, t \in VarTypes :
        /\ sScopes' = insert_var(sScopes, v, t).scopes
        /\ sBefore' = sScopes
        /\ sOp' = [call |-> "insert_var", name |-> v, type |-> t,
                   result |-> insert_var(sScopes, v, t).result]

GetVar ==
    \E k \in VarNames :
        /\ sScopes' = sScopes
        /\ sBefore' = sScopes
        /\ sOp' = [call |-> "get_var", name |-> k, type |-> "none",
                   result |-> get_var(sScopes, Len(sScopes), k)]

(***************************************************************************)
(* SymbolTable (symbols.rs)                                                *)
(***************************************************************************)
SymKeys == {"a", "b"}

\* The optional `name` argument.
OptNames == {"None"} \cup SymKeys

VariableKinds == {"Rib", "Constant"}

Absent == [name |-> "absent", kind |-> "absent", token |-> <<"none", 0>>]

\* SymbolTable::new: empty maps.
EmptyMap == [k \in SymKeys |-> Absent]

MapLen(m) == Cardinality({k \in SymKeys : m[k] # Absent})

\* `self.variables.len() as u8`
AsU8(n) == n % 256

\* SymbolTable::move_symbol_into: the result and the map `variables` after.
move_symbol_into(variables, key, symbol) ==
    IF variables[key] # Absent
        THEN [result |-> Err("already defined"), map |-> variables]
    ELSE [result |-> Ok("none"),
          map |-> [variables EXCEPT ![key] =
                      [symbol EXCEPT !.token =
                          <<"Variable", AsU8(MapLen(variables))>>]]]

\* SymbolTable::add_variable: contains_key looks for `name` (the key when no
\* name is given), insert stores under `key`.
add_variable(variables, key, opt_name, kind) ==
    LET name == IF opt_name # "None" THEN opt_name ELSE key
        token_int == AsU8(MapLen(variables))
        token == IF kind \in {"Rib", "Table", "PrefixList"}
                    THEN <<"DataSource", token_int>>
                    ELSE <<"Variable", token_int>>
    IN  IF variables[name] # Absent
            THEN [result |-> Err("already defined"), map |-> variables]
        ELSE [result |-> Ok("none"),
              map |-> [variables EXCEPT ![key] =
                          [name |-> name, kind |-> kind, token |-> token]]]

\* SymbolTable::add_argument: the same on the map `arguments`.
add_argument(arguments, key, opt_name, kind) ==
    LET name == IF opt_name # "None" THEN opt_name ELSE key
        token == <<"Argument", AsU8(MapLen(arguments))>>
    IN  IF arguments[name] # Absent
            THEN [result |-> Err("already defined"), map |-> arguments]
        ELSE [result |-> Ok("none"),
              map |-> [arguments EXCEPT ![key] =
                          [name |-> name, kind |-> kind, token |-> token]]]

NoCall == [call |-> "none", key |-> "none", name |-> "None", result |-> Ok("none")]

InitSym ==
    /\ yVariables = EmptyMap
    /\ yArguments = EmptyMap
    /\ yBefore = <<EmptyMap, EmptyMap>>
    /\ yOp = NoCall

SymIdle == InitSym

MoveSymbolInto ==
    \E key \in SymKeys, n \in SymKeys, kind \in VariableKinds :
        LET r == move_symbol_into(yVariables, key,
                     [name |-> n, kind |-> kind, token |-> <<"none", 0>>])
        IN  /\ yVariables' = r.map
            /\ yArguments' = yArguments
            /\ yBefore' = <<yVariables, yArguments>>
            /\ yOp' = [call |-> "move_symbol_into", key |-> key,
                       name |-> "None", result |-> r.result]

AddVariable ==
    \E key \in SymKeys, n \in OptNames, kind \in VariableKinds :
        LET r == add_variable(yVariables, key, n, kind)
        IN  /\ yVariables' = r.map
            /\ yArguments' = yArguments
            /\ yBefore' = <<yVariables, yArguments>>
            /\ yOp' = [call |-> "add_variable", key |-> key, name |-> n,
                       result |-> r.result]

AddArgument ==
    \E key \in SymKeys, n \in OptNames :
        LET r == add_argument(yArguments, key, n, "Argument")
        IN  /\ yArguments' = r.map
            /\ yVariables' = yVariables
            /\ yBefore' = <<yVariables, yArguments>>
            /\ yOp' = [call |-> "add_argument", key |-> key, name |-> n,
                       result |-> r.result]

(***************************************************************************)
(* Parser::value_expr (parser/value.rs)                                    *)
(*                                                                         *)
(* The inputs are value expressions made of one receiver token (an         *)
(* identifier or a literal) followed by `.` segments; the argument list of *)
(* a method call is taken as parsed.  A number is known by the count of    *)
(* its significant bits, which is what decides whether str::parse accepts  *)
(* it for a given integer type.                                            *)
(***************************************************************************)
\* A token: its kind, its text (or the way its text parses), and for a
\* number the bit count of its digits.
Tok(t, v) == [t |-> t, v |-> v, bits |-> 0]
Num(t, b) == [t |-> t, v |-> "digits", bits |-> b]

\* The tokens a value expression can start with here. Integer, Hex, Asn and
\* PrefixLength carry the bit count of their digits; Community and IpV4 the
\* way their text parses.
FirstTokens ==
    {Tok("Ident", "x"), Tok("String", "s"), Tok("Bool", "true"),
     Tok("Float", "1.5"), Tok("Comma", ","), Tok("EndOfInput", "")}
    \cup {Num("Integer", b) : b \in {1, 63, 64}}
    \cup {Num("Hex", b) : b \in {1, 64, 65}}
    \cup {Num("Asn", b) : b \in {1, 32, 33}}
    \cup {Num("PrefixLength", b) : b \in {1, 8, 9}}
    \cup {Tok("Community", c) : c \in {"Standard", "Extended", "Large",
                                       "Ipv6Extended", "bad_hex", "invalid"}}
    \cup {Tok("IpV4", a) : a \in {"valid", "invalid"}}

\* A `.` segment: `.ident`, `.ident(args)`, or a `.` that no identifier
\* follows.
Segments == [ident : {"f", "g", "none"}, call : BOOLEAN] \ {[ident |-> "none", call |-> TRUE]}

SegLists == UNION { [1..n -> Segments] : n \in 0..MaxSegs }

\* str::parse::<iN/uN> and from_str_radix: the number, or an error when it
\* needs more bits than the type has.
ParseInt(bits, width) == IF bits <= width THEN Ok(bits) ELSE Err(0)

ParseErr(what, token) == Err([error |-> what, token |-> token])

\* A mutant of AccessStep: a field access is always pushed as a new element.
AccessStep_NoMerge(access_expr, seg) ==
    Append(access_expr,
           [kind |-> IF seg.call THEN "method" ELSE "field", names |-> <<seg.ident>>])

\* One turn of the loop of access_expr, after the identifier was read.
AccessStep(access_expr, seg) ==
    IF seg.call
        THEN Append(access_expr, [kind |-> "method", names |-> <<seg.ident>>])
    ELSE IF access_expr # <<>> /\ access_expr[Len(access_expr)].kind = "field"
        THEN [access_expr EXCEPT ![Len(access_expr)].names = Append(@, seg.ident)]
    ELSE Append(access_expr, [kind |-> "field", names |-> <<seg.ident>>])

\* Parser::access_expr
RECURSIVE AccessLoop(_, _)
AccessLoop(segs, access_expr) ==
    IF segs = <<>> THEN Ok(access_expr)
    ELSE IF Head(segs).ident = "none"
        THEN ParseErr("expected an identifier", Tok("Other", "after ."))
    ELSE AccessLoop(Tail(segs), AccessStep(access_expr, Head(segs)))

access_expr(segs) == AccessLoop(segs, <<>>)

\* Parser::prefix_length
prefix_length(token) ==
    IF token.t # "PrefixLength" THEN ParseErr("invalid prefix length", token)
    ELSE IF ParseInt(token.bits, 8).kind = "Err"
        THEN ParseErr("invalid prefix length", token)
    ELSE Ok([lit |-> "PrefixLength", v |-> token.v, bits |-> ParseInt(token.bits, 8).value])

\* Parser::ip_address
ip_address(token) ==
    IF token.v = "valid" THEN Ok([lit |-> "IpAddress", v |-> token.v, bits |-> 0])
    ELSE ParseErr("invalid Ipv4 address", token)

\* Parser::simple_literal
simple_literal(token) ==
    CASE token.t = "EndOfInput" -> ParseErr("end of input", token)
      [] token.t = "String" -> Ok([lit |-> "String", v |-> token.v, bits |-> 0])
      [] token.t = "Integer" ->
            IF ParseInt(token.bits, 63).kind = "Err"
                THEN ParseErr("invalid integer", token)
            ELSE Ok([lit |-> "Integer", v |-> token.v, bits |-> ParseInt(token.bits, 63).value])
      [] token.t = "Hex" ->
            IF ParseInt(token.bits, 64).kind = "Err"
                THEN ParseErr("invalid hexadecimal integer", token)
            ELSE Ok([lit |-> "Hex", v |-> token.v, bits |-> ParseInt(token.bits, 64).value])
      [] token.t = "Asn" ->
            IF ParseInt(token.bits, 32).kind = "Err"
                THEN ParseErr("invalid AS number", token)
            ELSE Ok([lit |-> "Asn", v |-> token.v, bits |-> ParseInt(token.bits, 32).value])
      [] token.t = "Bool" -> Ok([lit |-> "Bool", v |-> token.v, bits |-> 0])
      [] token.t = "Float" -> Panic
      [] token.t = "Community" ->
            IF token.v \in {"bad_hex", "invalid"}
                THEN ParseErr("invalid community", token)
            ELSE IF token.v = "Ipv6Extended" THEN Panic
            ELSE Ok([lit |-> "Community", v |-> token.v, bits |-> 0])
      [] OTHER -> ParseErr("expected a literal", token)

\* Parser::literal
literal(token) ==
    IF token.t = "PrefixLength" THEN prefix_length(token)
    ELSE IF token.t = "IpV4" THEN ip_address(token)
    ELSE simple_literal(token)

\* Parser::value_expr on a receiver token and its segments.
value_expr(first, segs) ==
    IF first.t = "Ident" THEN
        IF access_expr(segs).kind = "Err" THEN access_expr(segs)
        ELSE Ok([expr |-> "ComputeExpr", receiver |-> first,
                 access_expr |-> access_expr(segs).value])
    ELSE IF literal(first).kind # "Ok" THEN literal(first)
    ELSE IF access_expr(segs).kind = "Err" THEN access_expr(segs)
    ELSE Ok([expr |-> "LiteralAccessExpr",
             receiver |-> [t |-> literal(first).value.lit,
                           v |-> literal(first).value.v,
                           bits |-> literal(first).value.bits],
             access_expr |-> access_expr(segs).value])

InitParse ==
    /\ qFirst \in FirstTokens
    /\ qSegs \in SegLists
    /\ qResult = "none"
    /\ qPc = "ready"

ParseIdle ==
    /\ qFirst = Tok("EndOfInput", "")
    /\ qSegs = <<>>
    /\ qResult = "none"
    /\ qPc = "idle"

ValueExpr ==
    /\ qPc = "ready"
    /\ qResult' = value_expr(qFirst, qSegs)
    /\ qPc' = "done"
    /\ UNCHANGED <<qFirst, qSegs>>

(***************************************************************************)
(* pipeline::run and its stages (pipeline.rs)                              *)
(***************************************************************************)
FileNames == {"a.roto", "b.roto"}

\* What a file is: not readable, or readable with a syntax error, with a
\* type error in one declaration, with a type error in each of two
\* independent declarations, or well-formed.
FileStates == {"unreadable", "bad_syntax", "bad_types", "bad_types_twice", "ok"}

\* The contents the type checker rejects.
IllTyped == {"bad_types", "bad_types_twice"}

InputFiles == [name : FileNames, disk : FileStates]

Inputs == UNION { [1..n -> InputFiles] : n \in 0..MaxFiles }

\* The indices of the elements of a sequence that satisfy a test, ascending:
\* the loops of the stages visit every element in order.
RECURSIVE Failing(_, _, _)
Failing(items, bad, i) ==
    IF i > Len(items) THEN <<>>
    ELSE (IF items[i] \in bad THEN <<i>> ELSE <<>>) \o Failing(items, bad, i + 1)

\* A mutant of ReadErrors: the loop stops after the first file that failed.
ReadErrors_FirstOnly(input) ==
    LET all == Failing([i \in DOMAIN input |-> input[i].disk], {"unreadable"}, 1)
    IN  IF all = <<>> THEN <<>>
        ELSE <<[kind |-> "Read", name |-> input[all[1]].name, file |-> all[1]]>>

\* read_files: one RotoError::Read(name, err) per file that could not be read.
ReadErrors(input) ==
    LET all == Failing([i \in DOMAIN input |-> input[i].disk], {"unreadable"}, 1)
    IN  [k \in DOMAIN all |->
            [kind |-> "Read", name |-> input[all[k]].name, file |-> all[k]]]

\* read_files: one SourceFile per input file, with empty contents for a file
\* that could not be read.
ReadSourceFiles(input) ==
    [i \in DOMAIN input |->
        [name |-> input[i].name,
         contents |-> IF input[i].disk = "unreadable" THEN "" ELSE input[i].disk]]

\* LoadedFiles::parse: one RotoError::Parse per file the parser rejects.
ParseErrors(files) ==
    LET all == Failing([i \in DOMAIN files |-> files[i].contents], {"bad_syntax"}, 1)
    IN  [k \in DOMAIN all |-> [kind |-> "Parse", name |-> "", file |-> all[k]]]

\* LoadedFiles::parse: the trees of the files that parsed, in order.
ParseTrees(files) ==
    LET all == Failing([i \in DOMAIN files |-> files[i].contents],
                       IllTyped \cup {"ok", ""}, 1)
    IN  [k \in DOMAIN all |-> [file |-> all[k], contents |-> files[all[k]].contents]]

\* Parsed::typecheck: typechecker::typecheck gives one Result per tree, and
\* an Err carries a single TypeError, so there is one RotoError::Type per
\* tree the type checker rejects, however many of its declarations fail.
TypeErrors(trees) ==
    LET all == Failing([i \in DOMAIN trees |-> trees[i].contents], IllTyped, 1)
    IN  [k \in DOMAIN all |-> [kind |-> "Type", name |-> "", file |-> trees[all[k]].file]]

\* A mutant of StageResult: the stage succeeds whatever the errors.
StageResult_AlwaysOk(errors, next) == next

\* The end of a stage: `if errors.is_empty() { Ok(..) } else { Err(report) }`,
\* and the `?` of run.
StageResult(errors, next) == IF errors = <<>> THEN next ELSE "failed"

NoReport == [stage |-> "none", files |-> <<>>, errors |-> <<>>]

InitPipe ==
    /\ pInput \in Inputs
    /\ pFiles = <<>>
    /\ pTrees = <<>>
    /\ pReport = NoReport
    /\ pTrace = <<>>
    /\ pLowered = <<>>
    /\ pPc = "start"

PipeIdle ==
    /\ pInput = <<>>
    /\ pFiles = <<>>
    /\ pTrees = <<>>
    /\ pReport = NoReport
    /\ pTrace = <<>>
    /\ pLowered = <<>>
    /\ pPc = "idle"

\* read_files
ReadFiles ==
    /\ pPc = "start"
    /\ pTrace' = Append(pTrace, "read")
    /\ pPc' = StageResult(ReadErrors(pInput), "loaded")
    /\ pFiles' = ReadSourceFiles(pInput)
    /\ pReport' = IF ReadErrors(pInput) = <<>> THEN NoReport
                  ELSE [stage |-> "read", files |-> ReadSourceFiles(pInput),
                        errors |-> ReadErrors(pInput)]
    /\ UNCHANGED <<pInput, pTrees, pLowered>>

\* LoadedFiles::parse
Parse ==
    /\ pPc = "loaded"
    /\ pTrace' = Append(pTrace, "parse")
    /\ pPc' = StageResult(ParseErrors(pFiles), "parsed")
    /\ pTrees' = ParseTrees(pFiles)
    /\ pReport' = IF ParseErrors(pFiles) = <<>> THEN NoReport
                  ELSE [stage |-> "parse", files |-> pFiles,
                        errors |-> ParseErrors(pFiles)]
    /\ UNCHANGED <<pInput, pFiles, pLowered>>

\* Parsed::typecheck
Typecheck ==
    /\ pPc = "parsed"
    /\ pTrace' = Append(pTrace, "typecheck")
    /\ pPc' = StageResult(TypeErrors(pTrees), "checked")
    /\ pReport' = IF TypeErrors(pTrees) = <<>> THEN NoReport
                  ELSE [stage |-> "typecheck", files |-> pFiles,
                        errors |-> TypeErrors(pTrees)]
    /\ UNCHANGED <<pInput, pFiles, pTrees, pLowered>>

\* TypeChecked::lower: lowers trees[0]; indexing panics when there is no tree.
Lower ==
    /\ pPc = "checked"
    /\ pTrace' = Append(pTrace, "lower")
    /\ pPc' = IF pTrees = <<>> THEN "panicked" ELSE "lowered"
    /\ pLowered' = IF pTrees = <<>> THEN <<>> ELSE <<pTrees[1].file>>
    /\ UNCHANGED <<pInput, pFiles, pTrees, pReport>>

\* Lowered::eval
Eval ==
    /\ pPc = "lowered"
    /\ pTrace' = Append(pTrace, "eval")
    /\ pPc' = "evaluated"
    /\ UNCHANGED <<pInput, pFiles, pTrees, pReport, pLowered>>

(***************************************************************************)
(* exec as a function of its inputs, and two executions of one filter      *)
(***************************************************************************)
\* The readings of the clock Emit takes the timestamp from.
Times == {0, 1}

\* The message with the timestamp Emit attaches.
Timestamped(m, now) == [stream |-> m.stream, body |-> m.body, timestamp |-> now]

\* Emit at clock reading `now`: append the timestamped message.
EmitAt(q, a, now) == Append(q, Timestamped(Message(a), now))

\* The body of an arm from item i on: sends are emitted, a return directive
\* ends the execution, the end of the body falls through.
RECURSIVE RunBody(_, _, _, _)
RunBody(body, i, q, now) ==
    IF i > Len(body) THEN [verdict |-> "none", queue |-> q]
    ELSE IF body[i] \in Returns THEN [verdict |-> body[i], queue |-> q]
    ELSE RunBody(body, i + 1, EmitAt(q, body[i], now), now)

\* The arms of the apply block from arm k on, then the final return.
RECURSIVE RunArms(_, _, _, _, _)
RunArms(m, payload, k, q, now) ==
    IF k > Len(m.arms) THEN [verdict |-> m.default, queue |-> q]
    ELSE IF PolarityMet(EvalTerm(m.arms[k].term, payload), m.arms[k].polarity)
         THEN LET r == RunBody(m.arms[k].body, 1, q, now)
              IN  IF r.verdict # "none" THEN r
                  ELSE RunArms(m, payload, k + 1, r.queue, now)
         ELSE RunArms(m, payload, k + 1, q, now)

\* A mutant of ExecResult: the queue is not reset at bind time.
ExecResult_NoReset(m, payload, q, now) == RunArms(m, payload, 1, q, now)

\* exec(rx, ..) from bind to Return, the clock reading `now`.
ExecResult(m, payload, q, now) == RunArms(m, payload, 1, ResetQueue(q), now)

InitDet ==
    /\ dMir \in Programs
    /\ dRx \in RxTypes
    /\ dRuns = <<>>
    /\ dPc = "bound"

DetIdle ==
    /\ dMir = [arms |-> <<>>, default |-> "accept"]
    /\ dRx = 0
    /\ dRuns = <<>>
    /\ dPc = "idle"

\* One execution of the filter on the same VM with the same rx; the clock
\* does not go back between executions.
ExecOnce ==
    /\ dPc = "bound"
    /\ Len(dRuns) < 2
    /\ \E now \in Times :
        /\ \A k \in DOMAIN dRuns : dRuns[k].at <= now
        /\ LET before == IF dRuns = <<>> THEN <<>> ELSE dRuns[Len(dRuns)].queue
               r == ExecResult(dMir, dRx, before, now)
           IN  dRuns' = Append(dRuns, [verdict |-> r.verdict, queue |-> r.queue,
                                       at |-> now])
    /\ UNCHANGED <<dMir, dRx, dPc>>

(***************************************************************************)
(* RouteToken and RouteStatusToken (types/builtin/route.rs)                *)
(***************************************************************************)
\* The variants of each enum in declaration order; no discriminant is
\* given, so the first one has discriminant 0.
TokenEnums ==
    [RouteToken |-> <<"Prefix", "AsPath", "Communities", "Status">>,
     RouteStatusToken |-> <<"IsInConvergence", "IsUpToDate", "IsStale",
                            "IsStartOfRouteRefresh", "IsWithdrawn", "IsEmpty">>]

Tokens ==
    UNION { {[enum |-> e, variant |-> TokenEnums[e][i]] : i \in DOMAIN TokenEnums[e]}
            : e \in DOMAIN TokenEnums }

\* The position of a token in its enum, from 1.
Position(t) == CHOOSE i \in DOMAIN TokenEnums[t.enum] : TokenEnums[t.enum][i] = t.variant

\* impl From<RouteToken> for usize, impl From<RouteStatusToken> for usize:
\* `val as usize`, the discriminant.
usize_from(t) == Position(t) - 1

\* impl From<usize> for RouteToken / RouteStatusToken: the arms start at 1,
\* any other value panics.
Token_from(enum, value) ==
    IF value \in DOMAIN TokenEnums[enum] THEN TokenEnums[enum][value] ELSE "panic"

\* RotoType for RawRouteWithDeltas::get_props_for_method: the number stored
\* in MethodProps for a method of Route.
RouteMethods ==
    [prefix |-> "Prefix", as_path |-> "AsPath", communities |-> "Communities",
     status |-> "Status"]

get_props_for_method(method_name) ==
    IF method_name \in DOMAIN RouteMethods
        THEN Ok(usize_from([enum |-> "RouteToken", variant |-> RouteMethods[method_name]]))
    ELSE Err(0)

NotComputed == "none"

InitTok ==
    /\ oToken \in Tokens
    /\ oValue \in 0..MaxUsize
    /\ oUsize = -1
    /\ oFrom = NotComputed
    /\ oBack = NotComputed

TokIdle ==
    /\ oToken = [enum |-> "none", variant |-> "none"]
    /\ oValue = 0
    /\ oUsize = -1
    /\ oFrom = NotComputed
    /\ oBack = NotComputed

\* usize::from(token)
TokenIntoUsize ==
    /\ oToken.enum \in DOMAIN TokenEnums
    /\ oUsize = -1
    /\ oUsize' = usize_from(oToken)
    /\ UNCHANGED <<oToken, oValue, oFrom, oBack>>

\* Token::from(value)
UsizeIntoToken ==
    /\ oToken.enum \in DOMAIN TokenEnums
    /\ oFrom = NotComputed
    /\ oFrom' = Token_from(oToken.enum, oValue)
    /\ UNCHANGED <<oToken, oValue, oUsize, oBack>>

\* Token::from(n) for the number n that usize::from(token) gave.
BackIntoToken ==
    /\ oUsize # -1
    /\ oBack = NotComputed
    /\ oBack' = Token_from(oToken.enum, oUsize)
    /\ UNCHANGED <<oToken, oValue, oUsize, oFrom>>

(***************************************************************************)
(* AttributeList and AttributeDeltaList (types/builtin/route.rs)           *)
(***************************************************************************)
\* Path attribute types, in the order of PathAttributeType.
AttrTypeOrder == <<"AsPath", "Origin", "NextHop">>

AttrTypes == {AttrTypeOrder[i] : i \in DOMAIN AttrTypeOrder}

AttrRank(t) == CHOOSE i \in DOMAIN AttrTypeOrder : AttrTypeOrder[i] = t

\* AttributeTypeValue: a variant with its payload, or Empty, the default.
AttrValues == [type : AttrTypes, payload : {1, 2}]

EmptyAttr == [type |-> "Empty", payload |-> 0]

\* AttributeTypeValue::get_type: todo!() for Empty.
get_type(item) == IF item = EmptyAttr THEN "panic" ELSE item.type

\* <[T]>::binary_search_by_key(&key, |item| item.get_type()) on the range
\* left..right: Ok(idx), Err(idx) with the insertion point, or the panic of
\* get_type on an element it looks at.
RECURSIVE binary_search(_, _, _, _)
binary_search(list, key, left, right) ==
    IF left >= right THEN Err(left)
    ELSE LET mid == left + (right - left) \div 2
             t == get_type(list[mid + 1])
         IN  IF t = "panic" THEN Panic
             ELSE IF t = key THEN Ok(mid)
             ELSE IF AttrRank(t) < AttrRank(key)
                 THEN binary_search(list, key, mid + 1, right)
             ELSE binary_search(list, key, left, mid)

binary_search_by_key(list, key) == binary_search(list, key, 0, Len(list))

Some(v) == [kind |-> "Some", value |-> v]
None == [kind |-> "None", value |-> EmptyAttr]
Panicked == [kind |-> "Panic", value |-> EmptyAttr]

\* AttributeList::get
AttributeList_get(list, key) ==
    LET r == binary_search_by_key(list, key)
    IN  [list |-> list,
         result |-> CASE r.kind = "Panic" -> Panicked
                      [] r.kind = "Ok" -> Some(list[r.value + 1])
                      [] OTHER -> None]

\* AttributeList::get_owned: std::mem::take leaves the default value, Empty,
\* in the place of the value it returns.
AttributeList_get_owned(list, key) ==
    LET r == binary_search_by_key(list, key)
    IN  CASE r.kind = "Panic" -> [list |-> list, result |-> Panicked]
          [] r.kind = "Ok" ->
                [list |-> [list EXCEPT ![r.value + 1] = EmptyAttr],
                 result |-> Some(list[r.value + 1])]
          [] OTHER -> [list |-> list, result |-> None]

\* Vec::insert(idx, value)
VecInsert(list, idx, value) ==
    SubSeq(list, 1, idx) \o <<value>> \o SubSeq(list, idx + 1, Len(list))

\* AttributeList::insert: None when the type is present, otherwise the value
\* is inserted at the index of the search and Some(&self.0[0]) is returned.
AttributeList_insert(list, value) ==
    LET key == get_type(value)
        r == IF key = "panic" THEN Panic ELSE binary_search_by_key(list, key)
    IN  CASE r.kind = "Panic" -> [list |-> list, result |-> Panicked]
          [] r.kind = "Ok" -> [list |-> list, result |-> None]
          [] OTHER ->
                LET new == VecInsert(list, r.value, value)
                IN  [list |-> new, result |-> Some(new[1])]

NoAttrCall == [call |-> "none", type |-> "none", value |-> EmptyAttr, result |-> None]

\* AttributeList::new
InitAttr ==
    /\ aList = <<>>
    /\ aBefore = <<>>
    /\ aOp = NoAttrCall

AttrIdle ==
    /\ aList = <<>>
    /\ aBefore = <<>>
    /\ aOp = [NoAttrCall EXCEPT !.call = "idle"]

\* A call that panicked ended the program.
AttrRunning == aOp.call # "idle" /\ aOp.result.kind # "Panic"

Get ==
    /\ AttrRunning
    /\ \E key \in AttrTypes :
        LET r == AttributeList_get(aList, key)
        IN  /\ aList' = r.list
            /\ aBefore' = aList
            /\ aOp' = [call |-> "get", type |-> key, value |-> EmptyAttr,
                       result |-> r.result]

GetOwned ==
    /\ AttrRunning
    /\ \E key \in AttrTypes :
        LET r == AttributeList_get_owned(aList, key)
        IN  /\ aList' = r.list
            /\ aBefore' = aList
            /\ aOp' = [call |-> "get_owned", type |-> key, value |-> EmptyAttr,
                       result |-> r.result]

Insert ==
    /\ AttrRunning
    /\ \E value \in AttrValues :
        LET r == AttributeList_insert(aList, value)
        IN  /\ aList' = r.list
            /\ aBefore' = aList
            /\ aOp' = [call |-> "insert", type |-> value.type, value |-> value,
                       result |-> r.result]

\* impl FromIterator<AttributeTypeValue> for AttributeList: insert one by
\* one, panic when an insert returns None.
RECURSIVE AttributeList_from_iter(_, _)
AttributeList_from_iter(list, values) ==
    IF values = <<>> THEN Ok(list)
    ELSE LET r == AttributeList_insert(list, Head(values))
         IN  IF r.result.kind # "Some" THEN Panic
             ELSE AttributeList_from_iter(r.list, Tail(values))

\* The values a writer changes in one go here: AsPath and Origin; no delta
\* holds a NextHop.
DeltaValues == {v \in AttrValues : v.type \in {"AsPath", "Origin"}}

DeltaAttributes ==
    LET built == {AttributeList_from_iter(<<>>, vs) :
                    vs \in UNION { [1..n -> DeltaValues] : n \in 0..2 }}
    IN  {<<>>} \cup {b.value : b \in {x \in built : x.kind = "Ok"} \ {Ok(<<>>)}}

\* AttributeDelta::new
AttributeDeltas == [delta_id : {1, 2}, attributes : DeltaAttributes]

\* AttributeDeltaList::get_latest_value: the first delta, from the front,
\* whose get(key) is Some.
RECURSIVE get_latest_value(_, _)
get_latest_value(deltas, key) ==
    IF deltas = <<>> THEN None
    ELSE LET r == AttributeList_get(Head(deltas).attributes, key).result
         IN  IF r.kind = "None" THEN get_latest_value(Tail(deltas), key) ELSE r

\* A mutant of with_new_delta: the new delta is pushed after the others.
with_new_delta_Last(deltas, delta) == Append(deltas, delta)

\* AttributeDeltaList::with_new_delta: push the delta, then extend with the
\* previous deltas.
with_new_delta(deltas, delta) == <<delta>> \o deltas

NoDelta == [delta_id |-> 0, attributes |-> <<>>]

NoDeltaCall == [call |-> "none", key |-> "none", delta |-> NoDelta, result |-> None]

\* AttributeDeltaList::new
InitDelta ==
    /\ lDeltas = <<>>
    /\ lBefore = <<>>
    /\ lOp = NoDeltaCall

DeltaIdle ==
    /\ lDeltas = <<>>
    /\ lBefore = <<>>
    /\ lOp = [NoDeltaCall EXCEPT !.call = "idle"]

WithNewDelta ==
    /\ lOp.call # "idle"
    /\ Len(lDeltas) < MaxDeltas
    /\ \E delta \in AttributeDeltas :
        /\ lDeltas' = with_new_delta(lDeltas, delta)
        /\ lBefore' = lDeltas
        /\ lOp' = [call |-> "with_new_delta", key |-> "none", delta |-> delta,
                   result |-> None]

GetLatestValue ==
    /\ lOp.call # "idle"
    /\ \E key \in AttrTypes :
        /\ lOp' = [call |-> "get_latest_value", key |-> key, delta |-> NoDelta,
                   result |-> get_latest_value(lDeltas, key)]
        /\ lBefore' = lDeltas
        /\ UNCHANGED lDeltas

(***************************************************************************)
(* VectorValue for AsPath (attr_change_set.rs)                             *)
(***************************************************************************)
Asns == {65000, 65001}

PathSegments == UNION { [1..n -> Asns] : n \in 1..MaxSegment }

AsPaths == UNION { [1..n -> PathSegments] : n \in 0..MaxPath }

AsnVecs == UNION { [1..n -> Asns] : n \in 0..MaxAsns }

\* The path std::mem::take leaves behind: the default, without segments.
DefaultPath == <<>>

\* `for asn in vector { seg.append(asn)?; }`: the segment with the ASNs
\* appended, or LongSegmentError when the segment is full.
RECURSIVE AppendAll(_, _)
AppendAll(seg, vector) ==
    IF vector = <<>> THEN Ok(seg)
    ELSE IF Len(seg) >= MaxSegment THEN Err(<<>>)
    ELSE AppendAll(Append(seg, Head(vector)), Tail(vector))

\* AsPath::insert_vec: the path is taken out of self, the segment at pos is
\* copied and extended into new_path, and the path taken out is written
\* back; an error of seg.append returns before that.
insert_vec(path, pos, vector) ==
    IF pos + 1 \in DOMAIN path /\ AppendAll(path[pos + 1], vector).kind = "Err"
        THEN [path |-> DefaultPath, result |-> "LongSegmentError"]
    ELSE [path |-> path, result |-> "Ok"]

NoPathCall == [call |-> "none", pos |-> 0, vector |-> <<>>, result |-> "none"]

InitPath ==
    /\ hPath \in AsPaths
    /\ hBefore = <<>>
    /\ hOp = NoPathCall

PathIdle ==
    /\ hPath = <<>>
    /\ hBefore = <<>>
    /\ hOp = [NoPathCall EXCEPT !.call = "idle"]

InsertVec ==
    /\ hOp.call # "idle"
    /\ \E pos \in 0..MaxPath, vector \in AsnVecs :
        LET r == insert_vec(hPath, pos, vector)
        IN  /\ hPath' = r.path
            /\ hBefore' = hPath
            /\ hOp' = [call |-> "insert_vec", pos |-> pos, vector |-> vector,
                       result |-> r.result]

(***************************************************************************)
(* ScalarOption and VectorOption (attr_change_set.rs)                      *)
(*                                                                         *)
(* A value is a list of items: one item for a scalar, the ASNs of a        *)
(* single-sequence AS path, or the elements of a Vec.                      *)
(***************************************************************************)
Items == Asns

ScalarValues == [1..1 -> Items]

VectorValues == UNION { [1..n -> Items] : n \in 0..MaxSegment }

NoneValue == [some |-> FALSE, v |-> <<>>]
SomeValue(v) == [some |-> TRUE, v |-> v]

Option(kind, value, changed) == [kind |-> kind, value |-> value, changed |-> changed]

\* ScalarOption::empty
ScalarOption_empty == Option("Scalar", NoneValue, FALSE)

\* ScalarOption::cleared
ScalarOption_cleared == Option("Scalar", NoneValue, TRUE)

\* impl From<Option<S1>> for ScalarOption<S2>, impl From<Option<V1>> for
\* VectorOption<V2>
Option_from(kind, value) == Option(kind, value, FALSE)

\* VectorOption::new
VectorOption_new(kind, vector) == Option(kind, SomeValue(vector), FALSE)

\* ScalarOption::set: swap the value in, set changed, return the old value.
ScalarOption_set(opt, value) ==
    [opt |-> Option(opt.kind, SomeValue(value), TRUE), result |-> "Ok"]

\* VectorOption::replace
VectorOption_replace(opt, vector) ==
    [opt |-> Option(opt.kind, SomeValue(vector), TRUE), result |-> "Ok"]

\* AsPath::prepend_vec / append_vec: the path is taken out of self, rebuilt
\* and written back; when finalize fails the default path stays in self.
\* Vec<T>::prepend_vec / append_vec: never an error.
prepend_vec(kind, v, vector) ==
    IF kind = "AsPath" /\ Len(vector \o v) > MaxSegment
        THEN [v |-> DefaultPath, result |-> "LongSegmentError"]
    ELSE [v |-> vector \o v, result |-> "Ok"]

append_vec(kind, v, vector) ==
    IF kind = "AsPath" /\ Len(v \o vector) > MaxSegment
        THEN [v |-> DefaultPath, result |-> "LongSegmentError"]
    ELSE [v |-> v \o vector, result |-> "Ok"]

\* insert_vec on the value of an option: for an AS path the path of one
\* segment; for a Vec the elements are spliced in at pos, and slicing
\* beyond the end panics.
option_insert_vec(kind, v, pos, vector) ==
    IF kind = "AsPath"
        THEN IF v = <<>> THEN [v |-> v, result |-> "Ok"]
             ELSE LET r == insert_vec(<<v>>, pos, vector)
                  IN  [v |-> IF r.path = <<>> THEN <<>> ELSE r.path[1],
                       result |-> r.result]
    ELSE IF pos > Len(v) THEN [v |-> v, result |-> "Panic"]
    ELSE [v |-> SubSeq(v, 1, pos) \o vector \o SubSeq(v, pos + 1, Len(v)),
          result |-> "Ok"]

\* `if let Some(v) = self.value.as_mut() { v.op(..)? }; self.changed = true;
\* Ok(())`: the shape of prepend, append and insert.
Apply(opt, r) ==
    IF r.result # "Ok"
        THEN [opt |-> Option(opt.kind, SomeValue(r.v), opt.changed), result |-> r.result]
    ELSE [opt |-> Option(opt.kind, SomeValue(r.v), TRUE), result |-> "Ok"]

Untouched(opt) == [opt |-> Option(opt.kind, opt.value, TRUE), result |-> "Ok"]

\* A mutant of VectorOption_prepend: changed is set only when there is a
\* value.
VectorOption_prepend_IfSome(opt, item) ==
    IF opt.value.some
        THEN Apply(opt, prepend_vec(opt.kind, opt.value.v, <<item>>))
    ELSE [opt |-> opt, result |-> "Ok"]

\* VectorOption::prepend
VectorOption_prepend(opt, item) ==
    IF opt.value.some
        THEN Apply(opt, prepend_vec(opt.kind, opt.value.v, <<item>>))
    ELSE Untouched(opt)

\* VectorOption::append
VectorOption_append(opt, item) ==
    IF opt.value.some
        THEN Apply(opt, append_vec(opt.kind, opt.value.v, <<item>>))
    ELSE Untouched(opt)

\* VectorOption::insert
VectorOption_insert(opt, pos, item) ==
    IF opt.value.some
        THEN Apply(opt, option_insert_vec(opt.kind, opt.value.v, pos, <<item>>))
    ELSE Untouched(opt)

VectorKinds == {"AsPath", "Vec"}

NoOption == Option("none", NoneValue, FALSE)

InitOpt ==
    /\ vBefore = NoOption
    /\ \/ vOp = [call |-> "empty", result |-> "Ok"] /\ vOption = ScalarOption_empty
       \/ vOp = [call |-> "cleared", result |-> "Ok"] /\ vOption = ScalarOption_cleared
       \/ /\ vOp = [call |-> "from", result |-> "Ok"]
          /\ \/ \E value \in {NoneValue} \cup {SomeValue(v) : v \in ScalarValues} :
                    vOption = Option_from("Scalar", value)
             \/ \E kind \in VectorKinds,
                   value \in {NoneValue} \cup {SomeValue(v) : v \in VectorValues} :
                    vOption = Option_from(kind, value)
       \/ /\ vOp = [call |-> "new", result |-> "Ok"]
          /\ \E kind \in VectorKinds, v \in VectorValues :
                vOption = VectorOption_new(kind, v)

OptIdle ==
    /\ vOption = NoOption
    /\ vBefore = NoOption
    /\ vOp = [call |-> "idle", result |-> "Ok"]

\* A call that panicked ended the program.
OptRunning(kinds) == vOption.kind \in kinds /\ vOp.result # "Panic"

\* A Vec grows without limit; the calls that add to one stop at MaxSegment
\* elements.
Room == ~(vOption.kind = "Vec" /\ vOption.value.some
            /\ Len(vOption.value.v) >= MaxSegment)

Called(call, r) ==
    /\ vOption' = r.opt
    /\ vBefore' = vOption
    /\ vOp' = [call |-> call, result |-> r.result]

Set ==
    /\ OptRunning({"Scalar"})
    /\ \E value \in ScalarValues : Called("set", ScalarOption_set(vOption, value))

Replace ==
    /\ OptRunning(VectorKinds)
    /\ \E vector \in VectorValues :
            Called("replace", VectorOption_replace(vOption, vector))

Prepend ==
    /\ OptRunning(VectorKinds)
    /\ Room
    /\ \E item \in Items : Called("prepend", VectorOption_prepend(vOption, item))

AppendItem ==
    /\ OptRunning(VectorKinds)
    /\ Room
    /\ \E item \in Items : Called("append", VectorOption_append(vOption, item))

InsertItem ==
    /\ OptRunning(VectorKinds)
    /\ Room
    /\ \E pos \in 0..MaxSegment, item \in Items :
            Called("insert", VectorOption_insert(vOption, pos, item))

(***************************************************************************)
(* Specifications                                                          *)
(***************************************************************************)
\* The variables of the other machines, idle while one machine runs.
notVM == <<termVars, recVars, convVars, bmpVars, tcVars, scopeVars, symVars, parseVars, pipeVars, detVars, tokVars, attrVars, deltaVars, pathVars, optVars>>
notTerm == <<vmVars, recVars, convVars, bmpVars, tcVars, scopeVars, symVars, parseVars, pipeVars, detVars, tokVars, attrVars, deltaVars, pathVars, optVars>>
notRec == <<vmVars, termVars, convVars, bmpVars, tcVars, scopeVars, symVars, parseVars, pipeVars, detVars, tokVars, attrVars, deltaVars, pathVars, optVars>>
notConv == <<vmVars, termVars, recVars, bmpVars, tcVars, scopeVars, symVars, parseVars, pipeVars, detVars, tokVars, attrVars, deltaVars, pathVars, optVars>>
notBmp == <<vmVars, termVars, recVars, convVars, tcVars, scopeVars, symVars, parseVars, pipeVars, detVars, tokVars, attrVars, deltaVars, pathVars, optVars>>
notTc == <<vmVars, termVars, recVars, convVars, bmpVars, scopeVars, symVars, parseVars, pipeVars, detVars, tokVars, attrVars, deltaVars, pathVars, optVars>>

OthersIdle == BmpIdle /\ TcIdle /\ ScopeIdle /\ SymIdle /\ ParseIdle /\ PipeIdle /\ DetIdle /\ TokIdle /\ AttrIdle /\ DeltaIdle /\ PathIdle /\ OptIdle

Init == InitVM /\ TermIdle /\ RecIdle /\ ConvIdle /\ OthersIdle

Next ==
    \/ ExecAny /\ UNCHANGED notVM
    \/ CallTerm /\ UNCHANGED notVM
    \/ EnterArm /\ UNCHANGED notVM
    \/ SkipArm /\ UNCHANGED notVM
    \/ CallAction /\ UNCHANGED notVM
    \/ Return /\ UNCHANGED notVM
    \/ FallThrough /\ UNCHANGED notVM
    \/ DefaultReturn /\ UNCHANGED notVM

Spec == Init /\ [][Next]_vars

\* The VM with any program, and an exec that has started keeps executing
\* instructions: the VM is synchronous and single-threaded, no operation
\* suspends, blocks or yields.
InitL == InitVMAny /\ TermIdle /\ RecIdle /\ ConvIdle /\ OthersIdle

Step ==
    \/ CallTerm /\ UNCHANGED notVM
    \/ EnterArm /\ UNCHANGED notVM
    \/ SkipArm /\ UNCHANGED notVM
    \/ CallAction /\ UNCHANGED notVM
    \/ Return /\ UNCHANGED notVM
    \/ FallThrough /\ UNCHANGED notVM
    \/ DefaultReturn /\ UNCHANGED notVM

SpecLive == InitL /\ [][Next]_vars /\ WF_vars(Step)

InitT == InitTerm /\ VmIdle /\ RecIdle /\ ConvIdle /\ OthersIdle

NextT ==
    \/ TermEval /\ UNCHANGED notTerm

SpecTerm == InitT /\ [][NextT]_vars

InitR == InitRec /\ VmIdle /\ TermIdle /\ ConvIdle /\ OthersIdle

NextR ==
    \/ NewA /\ UNCHANGED notRec
    \/ NewB /\ UNCHANGED notRec
    \/ EqTypes /\ UNCHANGED notRec
    \/ MatchValue /\ UNCHANGED notRec

SpecRec == InitR /\ [][NextR]_vars

InitC == InitConv /\ VmIdle /\ TermIdle /\ RecIdle /\ OthersIdle

NextC ==
    \/ TestTypeConversion /\ UNCHANGED notConv

SpecConv == InitC /\ [][NextC]_vars

\* The four machines above, idle.
FirstIdle == VmIdle /\ TermIdle /\ RecIdle /\ ConvIdle

InitB == InitBmp /\ FirstIdle /\ TcIdle /\ ScopeIdle /\ SymIdle /\ ParseIdle /\ PipeIdle /\ DetIdle /\ TokIdle /\ AttrIdle /\ DeltaIdle /\ PathIdle /\ OptIdle

NextB ==
    \/ GetFieldIndexForVariant /\ UNCHANGED notBmp

SpecBmp == InitB /\ [][NextB]_vars

InitK == InitTc /\ FirstIdle /\ BmpIdle /\ ScopeIdle /\ SymIdle /\ ParseIdle /\ PipeIdle /\ DetIdle /\ TokIdle /\ AttrIdle /\ DeltaIdle /\ PathIdle /\ OptIdle

NextK ==
    \/ CheckTypedRecord /\ UNCHANGED notTc
    \/ CheckListCompare /\ UNCHANGED notTc
    \/ LowerAndEval /\ UNCHANGED notTc

SpecTc == InitK /\ [][NextK]_vars

notScope == <<vmVars, termVars, recVars, convVars, bmpVars, tcVars, symVars, parseVars, pipeVars, detVars, tokVars, attrVars, deltaVars, pathVars, optVars>>
InitS == InitScope /\ FirstIdle /\ BmpIdle /\ TcIdle /\ SymIdle /\ ParseIdle /\ PipeIdle /\ DetIdle /\ TokIdle /\ AttrIdle /\ DeltaIdle /\ PathIdle /\ OptIdle

NextS ==
    \/ Wrap /\ UNCHANGED notScope
    \/ InsertVar /\ UNCHANGED notScope
    \/ GetVar /\ UNCHANGED notScope

SpecScope == InitS /\ [][NextS]_vars

notSym == <<vmVars, termVars, recVars, convVars, bmpVars, tcVars, scopeVars, parseVars, pipeVars, detVars, tokVars, attrVars, deltaVars, pathVars, optVars>>
InitY == InitSym /\ FirstIdle /\ BmpIdle /\ TcIdle /\ ScopeIdle /\ ParseIdle /\ PipeIdle /\ DetIdle /\ TokIdle /\ AttrIdle /\ DeltaIdle /\ PathIdle /\ OptIdle

NextY ==
    \/ MoveSymbolInto /\ UNCHANGED notSym
    \/ AddVariable /\ UNCHANGED notSym
    \/ AddArgument /\ UNCHANGED notSym

SpecSym == InitY /\ [][NextY]_vars

notParse == <<vmVars, termVars, recVars, convVars, bmpVars, tcVars, scopeVars, symVars, pipeVars, detVars, tokVars, attrVars, deltaVars, pathVars, optVars>>
InitQ == InitParse /\ FirstIdle /\ BmpIdle /\ TcIdle /\ ScopeIdle /\ SymIdle /\ PipeIdle /\ DetIdle /\ TokIdle /\ AttrIdle /\ DeltaIdle /\ PathIdle /\ OptIdle

NextQ ==
    \/ ValueExpr /\ UNCHANGED notParse

SpecParse == InitQ /\ [][NextQ]_vars

notPipe == <<vmVars, termVars, recVars, convVars, bmpVars, tcVars, scopeVars, symVars, parseVars, detVars, tokVars, attrVars, deltaVars, pathVars, optVars>>
InitP == InitPipe /\ FirstIdle /\ BmpIdle /\ TcIdle /\ ScopeIdle /\ SymIdle /\ ParseIdle /\ DetIdle /\ TokIdle /\ AttrIdle /\ DeltaIdle /\ PathIdle /\ OptIdle

NextP ==
    \/ ReadFiles /\ UNCHANGED notPipe
    \/ Parse /\ UNCHANGED notPipe
    \/ Typecheck /\ UNCHANGED notPipe
    \/ Lower /\ UNCHANGED notPipe
    \/ Eval /\ UNCHANGED notPipe

SpecPipe == InitP /\ [][NextP]_vars

notDet == <<vmVars, termVars, recVars, convVars, bmpVars, tcVars, scopeVars, symVars, parseVars, pipeVars, tokVars, attrVars, deltaVars, pathVars, optVars>>
InitD == InitDet /\ FirstIdle /\ BmpIdle /\ TcIdle /\ ScopeIdle /\ SymIdle /\ ParseIdle /\ PipeIdle /\ TokIdle /\ AttrIdle /\ DeltaIdle /\ PathIdle /\ OptIdle

NextD ==
    \/ ExecOnce /\ UNCHANGED notDet

SpecDet == InitD /\ [][NextD]_vars

notTok == <<vmVars, termVars, recVars, convVars, bmpVars, tcVars, scopeVars, symVars, parseVars, pipeVars, detVars, attrVars, deltaVars, pathVars, optVars>>
InitO == InitTok /\ FirstIdle /\ BmpIdle /\ TcIdle /\ ScopeIdle /\ SymIdle /\ ParseIdle /\ PipeIdle /\ DetIdle /\ AttrIdle /\ DeltaIdle /\ PathIdle /\ OptIdle

NextO ==
    \/ TokenIntoUsize /\ UNCHANGED notTok
    \/ UsizeIntoToken /\ UNCHANGED notTok
    \/ BackIntoToken /\ UNCHANGED notTok

SpecTok == InitO /\ [][NextO]_vars

notAttr == <<vmVars, termVars, recVars, convVars, bmpVars, tcVars, scopeVars, symVars, parseVars, pipeVars, detVars, tokVars, deltaVars, pathVars, optVars>>
InitA == InitAttr /\ FirstIdle /\ BmpIdle /\ TcIdle /\ ScopeIdle /\ SymIdle /\ ParseIdle /\ PipeIdle /\ DetIdle /\ TokIdle /\ DeltaIdle /\ PathIdle /\ OptIdle

NextA ==
    \/ Get /\ UNCHANGED notAttr
    \/ GetOwned /\ UNCHANGED notAttr
    \/ Insert /\ UNCHANGED notAttr

SpecAttr == InitA /\ [][NextA]_vars

notDelta == <<vmVars, termVars, recVars, convVars, bmpVars, tcVars, scopeVars, symVars, parseVars, pipeVars, detVars, tokVars, attrVars, pathVars, optVars>>
InitE == InitDelta /\ FirstIdle /\ BmpIdle /\ TcIdle /\ ScopeIdle /\ SymIdle /\ ParseIdle /\ PipeIdle /\ DetIdle /\ TokIdle /\ AttrIdle /\ PathIdle /\ OptIdle

NextE ==
    \/ WithNewDelta /\ UNCHANGED notDelta
    \/ GetLatestValue /\ UNCHANGED notDelta

SpecDelta == InitE /\ [][NextE]_vars

notPath == <<vmVars, termVars, recVars, convVars, bmpVars, tcVars, scopeVars, symVars, parseVars, pipeVars, detVars, tokVars, attrVars, deltaVars, optVars>>
InitH == InitPath /\ FirstIdle /\ BmpIdle /\ TcIdle /\ ScopeIdle /\ SymIdle /\ ParseIdle /\ PipeIdle /\ DetIdle /\ TokIdle /\ AttrIdle /\ DeltaIdle /\ OptIdle

NextH ==
    \/ InsertVec /\ UNCHANGED notPath

SpecPath == InitH /\ [][NextH]_vars

notOpt == <<vmVars, termVars, recVars, convVars, bmpVars, tcVars, scopeVars, symVars, parseVars, pipeVars, detVars, tokVars, attrVars, deltaVars, pathVars>>
InitV == InitOpt /\ FirstIdle /\ BmpIdle /\ TcIdle /\ ScopeIdle /\ SymIdle /\ ParseIdle /\ PipeIdle /\ DetIdle /\ TokIdle /\ AttrIdle /\ DeltaIdle /\ PathIdle

NextV ==
    \/ Set /\ UNCHANGED notOpt
    \/ Replace /\ UNCHANGED notOpt
    \/ Prepend /\ UNCHANGED notOpt
    \/ AppendItem /\ UNCHANGED notOpt
    \/ InsertItem /\ UNCHANGED notOpt

SpecOpt == InitV /\ [][NextV]_vars

(***************************************************************************)
(* Properties of exec                                                      *)
(***************************************************************************)
Range(f) == {f[i] : i \in DOMAIN f}

Increasing(f) == \A i, j \in DOMAIN f : i < j => f[i] < f[j]

Min(S) == CHOOSE m \in S : \A n \in S : m <= n

ArmIds == 1..Len(mir.arms)

\* The outcome of the term of arm i equals the polarity of the arm.
ArmRuns(i) == EvalTerm(mir.arms[i].term, rx) = mir.arms[i].polarity

ReturnAt(b) == {k \in 1..Len(b) : b[k] \in Returns}

\* The first return of a body, "none" when it has no return.
FirstReturn(b) == IF ReturnAt(b) = {} THEN "none" ELSE b[Min(ReturnAt(b))]

\* The body of arm i runs and executes a return.
Returning(i) == ArmRuns(i) /\ FirstReturn(mir.arms[i].body) # "none"

\* No arm before arm i returns.
Reached(i) == \A j \in 1..(i - 1) : ~Returning(j)

ExpectedVerdict ==
    IF \E i \in ArmIds : Returning(i)
    THEN FirstReturn(mir.arms[Min({i \in ArmIds : Returning(i)})].body)
    ELSE mir.default

\* The sends of a body that precede its first return, as messages.
SendsOf(b) ==
    LET n == IF ReturnAt(b) = {} THEN Len(b) ELSE Min(ReturnAt(b)) - 1
    IN  [k \in 1..n |-> Message(b[k])]

RECURSIVE ExpectedQueue(_)
ExpectedQueue(i) ==
    IF i = 0 THEN <<>>
    ELSE ExpectedQueue(i - 1) \o
         (IF Reached(i) /\ ArmRuns(i) THEN SendsOf(mir.arms[i].body) ELSE <<>>)

\* C1: the arms are tried in source order; the body of an arm runs iff the
\* outcome of its term equals its polarity; the verdict is the first return
\* that is executed, and the final default when no executed body returns.
\* With the single arm `matching { return reject; }` and default accept the
\* verdict is reject iff the term is true.
C1_ApplyOrderAndVerdict ==
    pc = "done" =>
        /\ tried = [i \in 1..Len(tried) |-> i]
        /\ Range(tried) = {i \in ArmIds : Reached(i)}
        /\ Increasing(ran)
        /\ Range(ran) = {i \in ArmIds : Reached(i) /\ ArmRuns(i)}
        /\ accept_reject = ExpectedVerdict
        /\ ( /\ Len(mir.arms) = 1
             /\ mir.arms[1].polarity
             /\ mir.arms[1].body = <<"reject">>
             /\ mir.default = "accept"
             => (accept_reject = "reject" <=> EvalTerm(mir.arms[1].term, rx)) )

\* A finished exec in which the first arm was tried and skipped and the
\* second arm returned a verdict that is not the default.
C1_Witness ==
    /\ pc = "done"
    /\ tried = <<1, 2>>
    /\ ran = <<2>>
    /\ accept_reject # mir.default

\* C3: `x not in L` is true exactly when `x in L` is false; for msg.type = 1
\* the term `msg.type not in [2,3,4,5,1]` does not match, the arm
\* `matching { return reject; }` is skipped and the default is returned.
C3_NotInNegatesIn ==
    /\ ( /\ pc = "cmp"
         /\ mir.arms[arm].term.op = "notin"
         => acc = ~In(EvalOperand(mir.arms[arm].term.x, rx),
                      EvalList(mir.arms[arm].term.list, rx)) )
    /\ ( /\ pc = "done"
         /\ rx = 1
         /\ Len(mir.arms) = 1
         /\ mir.arms[1].term.op = "notin"
         /\ mir.arms[1].polarity
         /\ mir.arms[1].body = <<"reject">>
         /\ mir.default = "accept"
         => accept_reject = "accept" )

\* C4: the queue returned by an exec holds one message for every send
\* executed during that exec, in execution order, and nothing else: no
\* message of an earlier exec, none of an arm whose polarity is not met.
C4_QueueIsSendsOfThisExec ==
    pc = "done" =>
        /\ output_stream_queue = ExpectedQueue(Len(mir.arms))
        /\ ( /\ Len(ran) = 1
             /\ Len(SendsOf(mir.arms[ran[1]].body)) = 1
             => Len(output_stream_queue) = 1 )

\* A finished exec whose first arm holds a send and was skipped and whose
\* second arm executed two sends.
C4_Witness ==
    /\ pc = "done"
    /\ tried = <<1, 2>>
    /\ ran = <<2>>
    /\ mir.arms[1].body = <<"send_b", "accept">>
    /\ output_stream_queue = <<Message("send_a"), Message("send_b")>>

(***************************************************************************)
(* Properties of a list-compare term                                       *)
(***************************************************************************)
\* C2: `x in L` is true iff the value of x equals the value of at least
\* one element of L, for x and the elements being integer literals, the rx
\* field or define variables; 32768 is not a member, and not an error.
C2_InIsMembership ==
    (tPc = "done" /\ tTerm.op = "in") =>
        /\ tResult \in BOOLEAN
        /\ tResult <=> (\E v \in Range(EvalList(tTerm.list, tRx)) :
                            v = EvalOperand(tTerm.x, tRx))
        /\ (tTerm.x = Lit(32768) => tResult = FALSE)

\* An evaluated `a in [.., msg.type]`-like term: the left-hand side is a
\* define variable, the matching element is the last of two and is not a
\* literal.
C2_Witness ==
    /\ tPc = "done"
    /\ tTerm.op = "in"
    /\ tTerm.x = Var("a")
    /\ tTerm.list = ListLit(<<Field, Var("a")>>)
    /\ tResult = TRUE


(***************************************************************************)
(* Properties of record types                                              *)
(***************************************************************************)
\* How often the field f occurs in the vector v.
Count(v, f) == Cardinality({i \in DOMAIN v : v[i] = f})

\* The two vectors hold the same fields, in whatever order.
SameFields(v, w) ==
    /\ Len(v) = Len(w)
    /\ \A i \in DOMAIN v : Count(v, v[i]) = Count(w, v[i])

\* The field names of the vector ascend.
SortedByName(v) ==
    \A i, j \in DOMAIN v : i < j => NameRank(v[i][1]) <= NameRank(v[j][1])

FieldNamesOf(v) == {v[i][1] : i \in DOMAIN v}

\* C5: a record type built by any of the constructors holds the fields it
\* was given in ascending order of field name, whatever order they were
\* supplied in; two record types built from the same fields in different
\* orders are identical; and in a record type of the fields peer_ip and
\* prefix, peer_ip has index 0 and prefix index 1.
C5_RecordFieldsSorted ==
    /\ rPc # "new" =>
        /\ SortedByName(rA)
        /\ SameFields(rA, rInA)
        /\ (Len(rInA) = 2 /\ FieldNamesOf(rInA) = {"peer_ip", "prefix"}) =>
              /\ get_index_for_field_name(rA, "peer_ip") = 0
              /\ get_index_for_field_name(rA, "prefix") = 1
    /\ rPc \in {"ab", "eq"} =>
        /\ SortedByName(rB)
        /\ SameFields(rB, rInB)
        /\ SameFields(rInA, rInB) => rA = rB

\* Two record types were built from prefix and peer_ip, supplied in the two
\* different orders.
C5_Witness ==
    /\ rPc = "ab"
    /\ Len(rInA) = 2
    /\ rInA[1][1] = "prefix"
    /\ rInA[2][1] = "peer_ip"
    /\ rInB = <<rInA[2], rInA[1]>>
    /\ rA = rB
    /\ rA = <<rInA[2], rInA[1]>>

\* C6: two record types compare equal iff they have the same number of
\* fields and the same field name at every position; the field types play no
\* role, record types of different length are never equal, and the empty
\* record type equals only the empty record type.
C6_RecordTypeEqIffSameNames ==
    rPc = "eq" =>
        (rEq <=> /\ Len(rA) = Len(rB)
                 /\ \A i \in DOMAIN rA : rA[i][1] = rB[i][1])

\* C10: TypeDef::Record(R) == TypeValue::Record(v) iff v has as many fields
\* as R, every field name of v is a field name of R, and every field of v
\* has the type R declares for that name or holds Unknown; every TypeDef
\* matches the value Unknown.
C10_RecordTypeMatchesValue ==
    rPc = "matched" =>
        IF rVal.kind = "Unknown" THEN rMatch = TRUE
        ELSE rMatch <=>
            /\ Len(rVal.fields) = Len(rA)
            /\ \A i \in DOMAIN rVal.fields :
                \E j \in DOMAIN rA :
                    /\ rA[j][1] = rVal.fields[i][1]
                    /\ \/ rVal.fields[i][2].kind = "Unknown"
                       \/ rA[j][2] = rVal.fields[i][2].tag

(***************************************************************************)
(* Properties of the conversion relation                                   *)
(***************************************************************************)
\* The variants reachable from the variants in S by zero or more conversions.
RECURSIVE ConvClosure(_)
ConvClosure(S) ==
    LET n == S \cup UNION {ConversionTable[t] : t \in S}
    IN  IF n = S THEN S ELSE ConvClosure(n)

\* b is reachable from a through one or more conversions.
Reachable(a, b) == b.tag \in ConvClosure(ConversionTable[a.tag])

\* C7: the conversion relation is unidirectional and acyclic: whenever A
\* converts to a different type B, A is not reachable from B through one or
\* more conversions.
C7_ConversionAcyclic ==
    (cPc = "done" /\ cResult = TRUE /\ cFrom # cInto) => ~Reachable(cInto, cFrom)

\* The primitive variants of TypeDef: the builtin types and the literals.
Primitives ==
    {"U32", "U16", "U8", "Bool", "Prefix", "PrefixLength", "AfiSafi", "PathId",
     "IpAddr", "Asn", "PrefixRoute", "FlowSpecRoute", "RouteContext", "AsPath",
     "Hop", "Community", "Nlri", "Origin", "LocalPref", "MultiExitDisc",
     "NextHop", "AtomicAggregate", "AggregatorInfo", "Provenance",
     "NlriStatus", "PeerId", "PeerRibType", "HexLiteral", "IntegerLiteral",
     "StringLiteral"}

\* The conversions the specification enumerates.
EnumeratedConversions ==
    ({"U8"} \X {"U16", "U32", "PrefixLength", "Asn", "IntegerLiteral",
                "StringLiteral"})
    \cup ({"U16"} \X {"U32", "PrefixLength", "Asn", "IntegerLiteral",
                      "LocalPref", "StringLiteral"})
    \cup ({"U32"} \X {"Asn", "IntegerLiteral", "StringLiteral"})
    \cup ({"IntegerLiteral"} \X {"U8", "U16", "U32", "PrefixLength",
                                 "LocalPref", "Asn", "ConstEnumVariant",
                                 "StringLiteral"})
    \cup ({"HexLiteral"} \X {"U8", "U32", "Community", "StringLiteral"})
    \cup (Primitives \X {"StringLiteral"})

\* C8: test_type_conversion accepts every conversion the specification
\* enumerates.
C8_EnumeratedConversionsAccepted ==
    (cPc = "done" /\ <<cFrom.tag, cInto.tag>> \in EnumeratedConversions)
        => cResult = TRUE

\* The field type a converts to the field type b: the same type, or a
\* conversion of the table.
FieldConverts(a, b) == a = b \/ b \in ConversionTable[a]

\* C9: a record type S converts to a record type T, or to an output stream
\* of T, iff the field names of S are among the field names of T and every
\* field of S converts to the type T declares for that name.
C9_RecordConvertsIffSubset ==
    (/\ cPc = "done"
     /\ cFrom.tag = "Record"
     /\ cInto.tag \in {"Record", "OutputStream"})
        => (cResult <=>
                \A i \in DOMAIN cFrom.fields :
                    \E j \in DOMAIN cInto.fields :
                        /\ cInto.fields[j][1] = cFrom.fields[i][1]
                        /\ FieldConverts(cFrom.fields[i][2],
                                         cInto.fields[j][2]))

(***************************************************************************)
(* Properties of get_field_index_for_variant                               *)
(***************************************************************************)
\* C11: with an empty field index the result is the error InvalidMethodCall,
\* whatever the variant; otherwise, when the requested variant differs from
\* the runtime variant of the message, the result is Ok(Unknown), never an
\* error.
C11_EmptyIndexOrMismatch ==
    bPc = "done" =>
        /\ bFieldIndex = <<>> => bResult = Err("InvalidMethodCall")
        /\ (bFieldIndex # <<>> /\ bVariant # bMsgType) => bResult = Ok("Unknown")

\* C12: for each of the six kinds K, on a well-formed message of kind K and
\* a field index of a field of K, the result is the value of that field.
C12_MatchingVariantGivesField ==
    (/\ bPc = "done"
     /\ bMsgType \in BmpKinds
     /\ bVariant = bMsgType
     /\ bParses
     /\ bFieldIndex # <<>>)
        => bResult = Ok(FieldValue(bVariant, bFieldIndex))

(***************************************************************************)
(* Properties of the type checker                                          *)
(***************************************************************************)
\* The declaration of the literal's type, when it is a named record.
IsNamedRecord(id) == id \in DOMAIN DeclaredTypes /\ DeclaredTypes[id].named_record

DeclaredFields(id) == DeclaredTypes[id].fields

DeclaredType(id, name) ==
    LET i == CHOOSE i \in DOMAIN DeclaredFields(id) : DeclaredFields(id)[i][1] = name
    IN  DeclaredFields(id)[i][2]

DeclaredNames(id) == {DeclaredFields(id)[i][1] : i \in DOMAIN DeclaredFields(id)}

SuppliedKeys(kvs) == {kvs[i][1] : i \in DOMAIN kvs}

\* Every key is a declared field, none is repeated, every value has the
\* declared type.
KeysFit(id, kvs) ==
    /\ \A i \in DOMAIN kvs : kvs[i][1] \in DeclaredNames(id)
    /\ \A i, j \in DOMAIN kvs : kvs[i][1] = kvs[j][1] => i = j
    /\ \A i \in DOMAIN kvs : Unify(kvs[i][2], DeclaredType(id, kvs[i][1]))

\* C13: a typed record literal type checks iff its type is a declared named
\* record, every key is a field of the declaration (each usable once), every
\* value unifies with the declared type and no declared field is left out;
\* when unsupplied fields are the only defect the error is MissingFields and
\* lists exactly the declared fields that were not supplied.
C13_TypedRecordLiteral ==
    (kPc = "done" /\ kKind = "record") =>
        /\ kResult.kind = "Ok" <=>
                /\ IsNamedRecord(kTypeId)
                /\ KeysFit(kTypeId, kKeyValues)
                /\ DeclaredNames(kTypeId) \subseteq SuppliedKeys(kKeyValues)
        /\ (/\ IsNamedRecord(kTypeId)
            /\ KeysFit(kTypeId, kKeyValues)
            /\ ~(DeclaredNames(kTypeId) \subseteq SuppliedKeys(kKeyValues)))
            => /\ kResult.kind = "Err"
               /\ kResult.value.error = "MissingFields"
               /\ Range(kResult.value.fields)
                    = DeclaredNames(kTypeId) \ SuppliedKeys(kKeyValues)
               /\ Len(kResult.value.fields)
                    = Cardinality(DeclaredNames(kTypeId) \ SuppliedKeys(kKeyValues))

\* `Message { prefix: p }` was checked against Message {prefix, peer_ip}: the
\* error lists peer_ip.
C13_Witness ==
    /\ kPc = "done"
    /\ kKind = "record"
    /\ kTypeId = "Message"
    /\ kKeyValues = <<<<"prefix", "Prefix">>>>
    /\ kResult = Err([error |-> "MissingFields", fields |-> <<"peer_ip">>])

\* C14: `a in L` and `a not in L` type check only when L is a List(T) and
\* the type of a unifies with T; a string tested against a list of integers
\* is a type error, and a program with that error is never executed.
C14_ListCompareTypes ==
    kKind \in {"in", "not_in"} =>
        /\ kPc \in {"done", "evaluated"} =>
            (kResult.kind = "Ok" <=>
                /\ kRight.depth = kLeft.depth + 1
                /\ Unify(kLeft.prim, kRight.prim))
        /\ (kPc = "done" /\ kLeft = Prim("String") /\ kRight = ListOf(Prim("U32")))
            => kResult.kind = "Err"
        /\ kExecuted => kResult.kind = "Ok"

\* `"x" in [1,2,3]` was checked, and the check failed.
C14_Witness ==
    /\ kPc = "done"
    /\ kKind = "in"
    /\ kLeft = Prim("String")
    /\ kRight = ListOf(Prim("U32"))
    /\ kResult.kind = "Err"
    /\ ~kExecuted

(***************************************************************************)
(* Properties of Scope                                                     *)
(***************************************************************************)
\* The positions of the chain that bind the name.
Binders(scopes, k) == {i \in DOMAIN scopes : scopes[i][k] # "unbound"}

Nearest(scopes, k) ==
    CHOOSE i \in Binders(scopes, k) : \A j \in Binders(scopes, k) : j <= i

\* C15: insert_var fails iff the name is already bound in the innermost
\* scope, a failed insert changes nothing, a successful one binds the name in
\* the innermost scope only (also when an ancestor binds it); get_var gives
\* the type of the nearest binding on the parent chain and fails iff no
\* scope of the chain binds the name.
C15_ScopeInsertAndLookup ==
    /\ sOp.call = "insert_var" =>
        LET inner == Len(sBefore)
            bound == sBefore[inner][sOp.name] # "unbound"
        IN  /\ sOp.result.kind = "Err" <=> bound
            /\ bound => sScopes = sBefore
            /\ ~bound => sScopes = [sBefore EXCEPT ![inner][sOp.name] = sOp.type]
    /\ sOp.call = "get_var" =>
        /\ sScopes = sBefore
        /\ IF Binders(sBefore, sOp.name) = {}
            THEN sOp.result = Err("cannot find variable")
            ELSE sOp.result = Ok(sBefore[Nearest(sBefore, sOp.name)][sOp.name])

\* x is bound in the root scope and, with another type, in a wrapped scope;
\* a second insert in the wrapped scope failed and left the binding alone.
C15_Witness ==
    /\ Len(sScopes) = 2
    /\ sOp.call = "insert_var"
    /\ sOp.name = "x"
    /\ sOp.result.kind = "Err"
    /\ sScopes[1]["x"] = "U32"
    /\ sScopes[2]["x"] = "String"
    /\ sOp.type = "U32"

(***************************************************************************)
(* Properties of SymbolTable                                               *)
(***************************************************************************)
\* The map the last call works on, before and after the call.
MapBefore == IF yOp.call = "add_argument" THEN yBefore[2] ELSE yBefore[1]
MapAfter == IF yOp.call = "add_argument" THEN yArguments ELSE yVariables

\* C16: add_variable, add_argument and move_symbol_into fail and leave the
\* table unchanged whenever the key is already present in their map,
\* whatever the name argument; a successful add replaces or removes no
\* symbol and the map grows by exactly one entry.
C16_AddNeverReplaces ==
    yOp.call # "none" =>
        /\ MapBefore[yOp.key] # Absent =>
            /\ yOp.result.kind = "Err"
            /\ <<yVariables, yArguments>> = yBefore
        /\ yOp.result.kind = "Ok" =>
            /\ \A k \in SymKeys : MapBefore[k] # Absent => MapAfter[k] = MapBefore[k]
            /\ MapLen(MapAfter) = MapLen(MapBefore) + 1

(***************************************************************************)
(* Properties of the value expression parser                               *)
(***************************************************************************)
\* The identifiers of an access list, in order, each with whether it is a
\* method call.
RECURSIVE Flatten(_)
Flatten(access) ==
    IF access = <<>> THEN <<>>
    ELSE [i \in DOMAIN Head(access).names |->
            [ident |-> Head(access).names[i], call |-> Head(access).kind = "method"]]
         \o Flatten(Tail(access))

FieldNameCount(access) ==
    Cardinality({i \in DOMAIN Flatten(access) : ~Flatten(access)[i].call})

MethodCount(access) == Cardinality({i \in DOMAIN access : access[i].kind = "method"})

\* C17: in the access list no two adjacent elements are field accesses;
\* the runs of `.ident` become one FieldAccessExpr each with the identifiers
\* in source order, every `.ident(..)` is its own MethodComputeExpr, and the
\* field names and method calls together are as many as the segments parsed.
C17_AccessListCollapsed ==
    (qPc = "done" /\ qResult.kind = "Ok") =>
        LET access == qResult.value.access_expr
        IN  /\ \A i \in 1..(Len(access) - 1) :
                    ~(access[i].kind = "field" /\ access[i + 1].kind = "field")
            /\ \A i \in DOMAIN access :
                    access[i].kind = "method" => Len(access[i].names) = 1
            /\ Flatten(access) = qSegs
            /\ FieldNameCount(access) + MethodCount(access) = Len(qSegs)

\* `x.f.g.f()` was parsed: one field access of f and g, then the method call.
C17_Witness ==
    /\ qPc = "done"
    /\ qFirst = Tok("Ident", "x")
    /\ qSegs = <<[ident |-> "f", call |-> FALSE], [ident |-> "g", call |-> FALSE],
                 [ident |-> "f", call |-> TRUE]>>
    /\ qResult.kind = "Ok"
    /\ qResult.value.access_expr =
            <<[kind |-> "field", names |-> <<"f", "g">>],
              [kind |-> "method", names |-> <<"f">>]>>

\* C18: value_expr returns a syntax tree or one ParseError carrying the
\* offending token and never panics, also on a Float token and an IPv6
\* extended community; integer, hexadecimal, AS-number and prefix-length
\* literals out of range for i64, u64, u32 and u8 give an invalid-literal
\* error, and a literal in range keeps its value.
C18_ValueExprTotal ==
    qPc = "done" =>
        /\ qResult.kind \in {"Ok", "Err"}
        /\ (qFirst.t = "Integer" /\ qFirst.bits > 63) => qResult = ParseErr("invalid integer", qFirst)
        /\ (qFirst.t = "Hex" /\ qFirst.bits > 64) =>
                qResult = ParseErr("invalid hexadecimal integer", qFirst)
        /\ (qFirst.t = "Asn" /\ qFirst.bits > 32) => qResult = ParseErr("invalid AS number", qFirst)
        /\ (qFirst.t = "PrefixLength" /\ qFirst.bits > 8) =>
                qResult = ParseErr("invalid prefix length", qFirst)
        /\ (qResult.kind = "Ok" /\ qFirst.t \in {"Integer", "Hex", "Asn", "PrefixLength"})
                => qResult.value.receiver.bits = qFirst.bits

(***************************************************************************)
(* Properties of the pipeline                                              *)
(***************************************************************************)
Stages == <<"read", "parse", "typecheck", "lower", "eval">>

\* The input has a file with a read, parse or type error.
HasError(input) == \E i \in DOMAIN input : input[i].disk # "ok"

\* C19: run performs read, parse, typecheck, lower, eval in this order, each
\* at most once and only after every earlier stage succeeded; when read,
\* parse or typecheck fails, run returns that stage's report and no later
\* stage runs, so a program with such an error is never lowered or
\* evaluated.
C19_StagesInOrder ==
    /\ Len(pTrace) <= Len(Stages)
    /\ \A i \in DOMAIN pTrace : pTrace[i] = Stages[i]
    /\ pPc = "failed" =>
        /\ pReport.stage = pTrace[Len(pTrace)]
        /\ pReport.stage \in {"read", "parse", "typecheck"}
    /\ pPc # "failed" => pReport = NoReport
    /\ HasError(pInput) => (\A i \in DOMAIN pTrace : pTrace[i] \notin {"lower", "eval"})

\* A file with a type error was read, parsed and checked; run stopped there.
C19_Witness ==
    /\ pPc = "failed"
    /\ pTrace = <<"read", "parse", "typecheck">>
    /\ pReport.stage = "typecheck"
    /\ \E i \in DOMAIN pInput : pInput[i].disk = "bad_types"

\* The files of the input that fail in a stage, ascending.
FailsIn(stage, i) ==
    CASE stage = "read" -> pInput[i].disk = "unreadable"
      [] stage = "parse" -> pInput[i].disk = "bad_syntax"
      [] stage = "typecheck" -> pInput[i].disk \in IllTyped
      [] OTHER -> FALSE

FailingFiles(stage) == {i \in DOMAIN pInput : FailsIn(stage, i)}

\* C20: read_files, parse and typecheck process every file even after an
\* earlier one failed; the stage fails iff at least one file failed, and its
\* report holds exactly one error per failing file, a Read error naming its
\* file; on a read failure the report has one file entry per input file, in
\* input order.
C20_OneErrorPerFailingFile ==
    /\ \A k \in DOMAIN pTrace :
        LET stage == pTrace[k]
            failed == pPc = "failed" /\ k = Len(pTrace)
        IN  stage \in {"read", "parse", "typecheck"} =>
                (failed <=> FailingFiles(stage) # {})
    /\ pPc = "failed" =>
        /\ Len(pReport.errors) = Cardinality(FailingFiles(pReport.stage))
        /\ {pReport.errors[k].file : k \in DOMAIN pReport.errors}
                = FailingFiles(pReport.stage)
        /\ \A k \in DOMAIN pReport.errors :
                pReport.stage = "read" =>
                    pReport.errors[k].name = pInput[pReport.errors[k].file].name
        /\ Len(pReport.files) = Len(pInput)
        /\ \A i \in DOMAIN pInput : pReport.files[i].name = pInput[i].name

\* Two unreadable files: the read report has an error for each and both
\* file entries.
C20_Witness ==
    /\ pPc = "failed"
    /\ Len(pInput) = 2
    /\ pInput[1].disk = "unreadable"
    /\ pInput[2].disk = "unreadable"
    /\ Len(pReport.errors) = 2
    /\ Len(pReport.files) = 2

\* The declarations of a file that have a type error of their own.
FailingDeclarations(disk) ==
    CASE disk = "bad_types" -> 1
      [] disk = "bad_types_twice" -> 2
      [] OTHER -> 0

\* C21: type checking continues past a failing declaration: the report of
\* typecheck for one file with type errors in two independent declarations
\* holds both errors.
C21_BothTypeErrorsReported ==
    (/\ pPc = "failed"
     /\ pReport.stage = "typecheck"
     /\ Len(pInput) = 1)
        => Len(pReport.errors) = FailingDeclarations(pInput[1].disk)

(***************************************************************************)
(* Properties of exec                                                      *)
(***************************************************************************)
\* What a message carries besides the timestamp.
Content(q) == [k \in DOMAIN q |-> [stream |-> q[k].stream, body |-> q[k].body]]

NoRepeats(q) == \A i, j \in DOMAIN q : q[i] = q[j] => i = j

\* C23: every exec terminates with a verdict, also when the apply block has
\* no arm that returns and no final return; the term of an arm is called at
\* most once and the body of an arm is entered at most once per exec, and
\* the position in a body only moves forward.
C23_ExecTerminates ==
    /\ (pc \notin {"idle", "done"}) ~> (pc = "done" /\ accept_reject \in Returns)
    /\ [](NoRepeats(tried) /\ NoRepeats(ran))
    /\ [][pc = "body" /\ pc' = "body" => ip' > ip]_vars

\* A finished exec of an apply block without a final return whose only arm
\* ran a send and did not return (tests/my_message.rs,
\* test_filter_map_message_1).
C23_Witness ==
    /\ pc = "done"
    /\ mir.default = "none"
    /\ Len(mir.arms) = 1
    /\ mir.arms[1].body = <<"send_a">>
    /\ ran = <<1>>
    /\ accept_reject \in Returns

\* The keys a map holds a symbol for.
Present(m) == {k \in SymKeys : m[k] # Absent}

\* C24: after any sequence of add_variable, move_symbol_into and
\* add_argument calls, no two symbols of the same map carry the same token
\* index, and the token of the symbol a successful call stored is the
\* number of symbols the map held before the call.
C24_TokensUnique ==
    /\ \A m \in {yVariables, yArguments} :
            \A j, k \in Present(m) : m[j].token[2] = m[k].token[2] => j = k
    /\ (yOp.call # "none" /\ yOp.result.kind = "Ok") =>
            MapAfter[yOp.key].token[2] = MapLen(MapBefore)

(***************************************************************************)
(* Properties of the route tokens                                          *)
(***************************************************************************)
\* C25: the conversions between method tokens and usize are mutually
\* inverse: Token::from(usize::from(t)) = t for every RouteToken and
\* RouteStatusToken t, without panic; so the number get_props_for_method
\* stores for a method converts back to the token of that method.
C25_TokenRoundTrip ==
    oBack # NotComputed =>
        /\ oBack = oToken.variant
        /\ \A name \in DOMAIN RouteMethods :
                Token_from("RouteToken", get_props_for_method(name).value)
                    = RouteMethods[name]

(***************************************************************************)
(* Properties of AttributeList                                             *)
(***************************************************************************)
\* Sorted by path attribute type, at most one value per type.
SortedByType(list) ==
    /\ \A i \in DOMAIN list : list[i] # EmptyAttr
    /\ \A i, j \in DOMAIN list : i < j => AttrRank(list[i].type) < AttrRank(list[j].type)

TypesOf(list) == {list[i].type : i \in DOMAIN list}

\* C26: after any sequence of insert and get_owned calls the list is sorted
\* by type with at most one value per type and no call panics; insert of a
\* value whose type is present returns None and leaves the list unchanged,
\* insert of a value whose type is absent returns Some and adds exactly that
\* value at its sorted position.
C26_AttributeListSorted ==
    /\ SortedByType(aList)
    /\ aOp.result.kind # "Panic"
    /\ aOp.call = "insert" =>
        IF aOp.type \in TypesOf(aBefore)
        THEN aOp.result.kind = "None" /\ aList = aBefore
        ELSE /\ aOp.result.kind = "Some"
             /\ Len(aList) = Len(aBefore) + 1
             /\ \E i \in DOMAIN aList :
                    /\ aList[i] = aOp.value
                    /\ aBefore = SubSeq(aList, 1, i - 1) \o SubSeq(aList, i + 1, Len(aList))

(***************************************************************************)
(* Properties of AttributeDeltaList                                        *)
(***************************************************************************)
\* The deltas that hold a value for a key, by position from the front.
Holding(deltas, key) ==
    {i \in DOMAIN deltas :
        \E j \in DOMAIN deltas[i].attributes : deltas[i].attributes[j].type = key}

\* The value a delta holds for a key.
ValueIn(delta, key) ==
    delta.attributes[CHOOSE j \in DOMAIN delta.attributes :
                        delta.attributes[j].type = key]

Newest(is) == CHOOSE i \in is : \A j \in is : i <= j

C29_InsertVecKeepsPath ==
    hOp.call = "insert_vec" => hPath = hBefore

(***************************************************************************)
(* Properties of ScalarOption and VectorOption                             *)
(***************************************************************************)
OptConstructors == {"empty", "cleared", "from", "new"}

\* C28: changed is false after new, From<Option<_>> and empty, and true
\* after cleared; it is true after every set, replace, prepend, append or
\* insert that returns Ok, also when the value is absent; a call that
\* returns an error leaves it as it was; no call resets it to false; and
\* prepend, append and insert on an absent value leave the value absent.
C28_ChangedFlag ==
    /\ vOp.call \in OptConstructors => (vOption.changed <=> vOp.call = "cleared")
    /\ (vOp.call \notin OptConstructors \cup {"idle"}) =>
        /\ vOp.result = "Ok" => vOption.changed
        /\ vOp.result = "LongSegmentError" => vOption.changed = vBefore.changed
        /\ vBefore.changed => vOption.changed
        /\ (vOp.call \in {"prepend", "append", "insert"} /\ ~vBefore.value.some) =>
                ~vOption.value.some

\* A prepend on an option without value that had not changed: Ok, still no
\* value, and changed is set.
C28_Witness ==
    /\ vOp = [call |-> "prepend", result |-> "Ok"]
    /\ ~vBefore.value.some
    /\ ~vBefore.changed
    /\ ~vOption.value.some
    /\ vOption.changed

\* C30: for every list of files that all pass type checking (zero, one or
\* several), lower returns a lowered program without failing, built from
\* the syntax tree and type maps of every file; there is one tree per file
\* when lower is called.
C30_LowerUsesEveryFile ==
    /\ pPc = "checked" => Len(pTrees) = Len(pInput)
    /\ (\E k \in DOMAIN pTrace : pTrace[k] = "lower") =>
        /\ pPc # "panicked"
        /\ pLowered = [i \in DOMAIN pInput |-> i]

====
